---- MODULE Spec2Model ----
(***************************************************************************)
(* Model of the sentiment-driven recommendation pipeline                   *)
(* (src/modules/module2_recommendation) and of its two callers: the HTTP   *)
(* path (RecommendationEngine.recommend) and the worker path               *)
(* (RecommendationEngine.recommend_sync, run by the Celery tasks).         *)
(*                                                                         *)
(* Units.  Sentiment scores are integers in hundredths (0.94 is 94);       *)
(* similarity and ranking scores are integers in ten-thousandths, the      *)
(* precision round(x, 4) keeps; ratings are in tenths (2.5 is 25); time is *)
(* in seconds.  The sentiment values that the request sets below draw from *)
(* are values on which the IEEE-754 evaluation of round(s / 0.1), s + 0.1  *)
(* and abs(s1 - s2) <= 0.1 agrees with the exact arithmetic written here.  *)
(***************************************************************************)
EXTENDS Integers, Sequences, FiniteSets, TLC

VARIABLES
    cache,        \* the Redis keyspace: live key -> [val, exp]
    now,          \* wall clock, seconds
    submitted,    \* number of requests submitted so far
    pc,           \* per execution context: the stage the request is at
    request,      \* per execution context: the RecommendationRequest
    path,         \* "recommend" (HTTP) or "recommend_sync" (worker task)
    hit,          \* outcome of get_cached_result for the request
    similar,      \* similar_products after the anchor filter
    result,       \* <<>> or <<the RecommendationResult returned>>
    stages,       \* the collaborators invoked for the request, in a set
    error,        \* the exception that ended the request, "none" otherwise
    store_ret,    \* return value of store_result: "none", "true", "false"
    cache_err,    \* cache operations of the request that hit a backend error
    inv_ret,      \* return value of the last invalidate, -1 before any
    inv_err,      \* whether the last invalidate hit a backend error
    last_put,     \* history: request -> result of a store_result that
                  \* returned True and was not overwritten, invalidated or
                  \* expired since
    invalidated,  \* history: <<product_id, product_type>> invalidated with
                  \* no store_result on that product since
    tasks,        \* the task messages published to the broker, with the
                  \* state the result backend holds for each
    worker,       \* the worker process: the task it executes and the
                  \* ambient values of its execution context
    http,         \* the HTTP execution context: the request it handles
                  \* and its ambient values
    model_of,     \* per service object: its _model, 0 for None, else the
                  \* number of the load that produced it
    loads,        \* per service: the model loads performed in the process
    callers,      \* per thread: the service call it is in
    analysis,     \* the call of SentimentAnalyzer.analyze under way
    ranking,      \* the call of rank_livreurs under way
    filtering,    \* the scene a caller of filter_by_ellipse set up and
                  \* the calls it made on it
    weighting,    \* the last pairwise matrix given to the AHP calculator
                  \* and what the calculator answered
    collection    \* the vehicle collection of the vector index and the
                  \* executions of vectorize_products_task

vars == <<cache, now, submitted, pc, request, path, hit, similar, result,
          stages, error, store_ret, cache_err, inv_ret, inv_err, last_put,
          invalidated, tasks, worker, http, model_of, loads, callers,
          analysis, ranking, filtering, weighting, collection>>

\* the variables of the recommendation pipeline and of its cache
pipelineVars == <<cache, now, submitted, pc, request, path, hit, similar,
                  result, stages, error, store_ret, cache_err, inv_ret,
                  inv_err, last_put, invalidated>>

\* the variables of the request context, of the tasks and of the worker,
\* of the model loaders, of the sentiment analysis and of the courier
\* ranking
auxVars == <<tasks, worker, http, model_of, loads, callers, analysis,
             ranking, filtering, weighting, collection>>

\* what the actions of each of these leave alone
taskFrame == <<pipelineVars, model_of, loads, callers, analysis, ranking,
               filtering, weighting, collection>>
loadFrame == <<pipelineVars, tasks, worker, http, analysis, ranking,
               filtering, weighting, collection>>
analysisFrame == <<pipelineVars, tasks, worker, http, model_of, loads,
                   callers, ranking, filtering, weighting, collection>>
rankingFrame == <<pipelineVars, tasks, worker, http, model_of, loads,
                  callers, analysis, weighting, collection>>

(***************************************************************************)
(* Bounds of the model.                                                    *)
(***************************************************************************)
MaxRequests == 2
TickSeconds == 1800
MaxTime == 3600
MaxTasks == 2
MaxLoads == 2
MaxRuns == 2
MaxVectorizations == 2
MaxFaults == 1

\* the execution contexts that carry requests concurrently
Contexts == {1, 2}

(***************************************************************************)
(* Program constants.                                                      *)
(***************************************************************************)
CACHE_TTL_SECONDS == 3600
SENTIMENT_SCORE_TOLERANCE == 10
similarity_weight == 6000
availability_weight == 2500
reputation_weight == 1500

max_retries == 3

VEHICLE == "vehicle"

Min(a, b) == IF a <= b THEN a ELSE b
Abs(a) == IF a < 0 THEN 0 - a ELSE a

\* Python's round(): to the nearest integer, ties to the even one.
\* num / den with den > 0.
Round(num, den) ==
    LET q == num \div den
        r == num % den
    IN  IF 2 * r < den THEN q
        ELSE IF 2 * r > den THEN q + 1
        ELSE IF q % 2 = 0 THEN q ELSE q + 1

(***************************************************************************)
(* Product identifiers.  A request carries product_id as a free string;    *)
(* uuid.UUID() accepts any hexadecimal spelling of an id (here the         *)
(* upper-case one) and raises ValueError on anything else; str(uuid) is    *)
(* the canonical lower-case spelling, which is what the repository and the *)
(* index payload hold.                                                     *)
(***************************************************************************)
CanonicalIds == {"a1", "a2", "a3", "a4", "a9"}

UUID(product_id) ==
    CASE product_id \in CanonicalIds -> <<product_id>>
      [] product_id = "A1" -> <<"a1">>
      [] product_id = "A2" -> <<"a2">>
      [] OTHER -> <<>>

(***************************************************************************)
(* The relational store (read-only for the pipeline) and the vector index. *)
(***************************************************************************)
Vehicles ==
    [a1 |-> [disponible |-> TRUE,  note_moyenne |-> 50],
     a2 |-> [disponible |-> FALSE, note_moyenne |-> 0],
     a3 |-> [disponible |-> TRUE,  note_moyenne |-> 25]]

VehicleIds == {"a1", "a2", "a3"}

\* One index point per vectorized product; a4 was vectorized and has since
\* left the relational store.
Points ==
    {[id |-> 1, real_product_id |-> "a1"],
     [id |-> 2, real_product_id |-> "a2"],
     [id |-> 3, real_product_id |-> "a3"],
     [id |-> 4, real_product_id |-> "a4"]}

\* Cosine similarity of the embeddings of two product descriptions.
Cosine(a, b) ==
    IF a = b THEN 10000
    ELSE LET pair == {a, b}
         IN  CASE pair = {"a1", "a2"} -> 9000
               [] pair = {"a1", "a4"} -> 8700
               [] pair = {"a1", "a3"} -> 8500
               [] pair = {"a2", "a3"} -> 8000
               [] pair = {"a2", "a4"} -> 7000
               [] pair = {"a3", "a4"} -> 9500
               [] OTHER -> 6000

(***************************************************************************)
(* CacheManager: keys.                                                     *)
(***************************************************************************)
\* score_bucket = round(sentiment_score / tolerance) * tolerance, printed
\* with two decimals: one distinct text per integer bucket number.
ScoreBucket(sentiment_score) == Round(sentiment_score, SENTIMENT_SCORE_TOLERANCE)

\* "rec:<type>:<md5 of type:product:client:bucket>"; the digest is modelled
\* by the tuple it is computed from.
GenerateCacheKey(product_id, client_id, sentiment_score, product_type) ==
    <<"rec", product_type,
      <<product_type, product_id, client_id, ScoreBucket(sentiment_score)>>>>

\* "prod:<type>:<product_id>"
GenerateProductKey(product_id, product_type) ==
    <<"prod", product_type, <<product_id>>>>

(***************************************************************************)
(* Serialization of a RecommendationResult (pydantic model_dump_json and   *)
(* model_validate_json): the JSON text is the list of field values in      *)
(* declaration order, each RankedProduct again as such a list.             *)
(***************************************************************************)
\* variant: similarity_score and final_score written in each other's place
DumpRanked_Swapped(p) ==
    <<p.product_id, p.product_type, p.final_score, p.availability_score,
      p.reputation_score, p.similarity_score, p.rank>>

DumpRanked(p) ==
    <<p.product_id, p.product_type, p.similarity_score, p.availability_score,
      p.reputation_score, p.final_score, p.rank>>

ValidateRanked(j) ==
    [product_id |-> j[1], product_type |-> j[2], similarity_score |-> j[3],
     availability_score |-> j[4], reputation_score |-> j[5],
     final_score |-> j[6], rank |-> j[7]]

ModelDumpJson(r) ==
    <<r.client_id, r.reference_product_id, r.sentiment_score, r.product_type,
      [i \in 1..Len(r.recommendations) |-> DumpRanked(r.recommendations[i])],
      r.total_results, r.cached, r.cache_key, r.processed_at>>

ModelValidateJson(j) ==
    [client_id |-> j[1], reference_product_id |-> j[2],
     sentiment_score |-> j[3], product_type |-> j[4],
     recommendations |-> [i \in 1..Len(j[5]) |-> ValidateRanked(j[5][i])],
     total_results |-> j[6], cached |-> j[7], cache_key |-> j[8],
     processed_at |-> j[9]]

(***************************************************************************)
(* CacheManager: the three operations, as functions of the keyspace.       *)
(* backend_ok = FALSE is a Redis error raised inside the try block.        *)
(***************************************************************************)
NoHit == [kind |-> "miss", data |-> <<>>, raised |-> FALSE]

\* variant: the entry is returned as it was stored, the cached flag not set
Found_FlagNotSet(kind, key, c) ==
    [kind |-> kind,
     data |-> <<[ModelValidateJson(c[key].val) EXCEPT !.cache_key = key]>>,
     raised |-> FALSE]

Found(kind, key, c) ==
    [kind |-> kind,
     data |-> <<[ModelValidateJson(c[key].val) EXCEPT
                    !.cached = TRUE, !.cache_key = key]>>,
     raised |-> FALSE]

\* variant: a backend error is not caught
GetCachedResult_Raises(c, req, backend_ok) ==
    [kind |-> "miss", data |-> <<>>, raised |-> ~backend_ok]

GetCachedResult(c, req, backend_ok) ==
    LET tol == SENTIMENT_SCORE_TOLERANCE
        exact == GenerateCacheKey(req.product_id, req.client_id,
                                  req.sentiment_score, req.product_type)
        fuzzy(delta) == GenerateCacheKey(req.product_id, req.client_id,
                                         req.sentiment_score + delta,
                                         req.product_type)
        tried(delta) == /\ -100 <= req.sentiment_score + delta
                        /\ req.sentiment_score + delta <= 100
                        /\ fuzzy(delta) \in DOMAIN c
        product == GenerateProductKey(req.product_id, req.product_type)
    IN  IF ~backend_ok THEN NoHit
        ELSE IF exact \in DOMAIN c THEN Found("exact", exact, c)
        ELSE IF tried(0 - tol) THEN Found("fuzzy", fuzzy(0 - tol), c)
        ELSE IF tried(tol) THEN Found("fuzzy", fuzzy(tol), c)
        ELSE IF /\ product \in DOMAIN c
                /\ Abs(ModelValidateJson(c[product].val).sentiment_score
                       - req.sentiment_score) <= tol
             THEN Found("product", product, c)
        ELSE NoHit

\* c with key k set to value v
Setex(c, k, ttl, v, t) ==
    [x \in DOMAIN c \cup {k} |->
        IF x = k THEN [val |-> v, exp |-> t + ttl] ELSE c[x]]

Delete(c, keys) == [x \in DOMAIN c \ keys |-> c[x]]

\* variant: the product-level key is written only when it is absent
StoreResult_KeepsFirstProductResult(c, t, req, res, fail) ==
    LET cache_key == GenerateCacheKey(req.product_id, req.client_id,
                                      req.sentiment_score, req.product_type)
        product_key == GenerateProductKey(req.product_id, req.product_type)
        result_json == ModelDumpJson(res)
        c1 == Setex(c, cache_key, CACHE_TTL_SECONDS, result_json, t)
        c2 == IF product_key \in DOMAIN c1 THEN c1
              ELSE Setex(c1, product_key, CACHE_TTL_SECONDS, result_json, t)
    IN  CASE fail = "first"  -> [cache |-> c,  ret |-> FALSE]
          [] fail = "second" -> [cache |-> c1, ret |-> FALSE]
          [] OTHER           -> [cache |-> c2, ret |-> TRUE]

\* fail: "none", or the setex that raises ("first", "second")
StoreResult(c, t, req, res, fail) ==
    LET cache_key == GenerateCacheKey(req.product_id, req.client_id,
                                      req.sentiment_score, req.product_type)
        product_key == GenerateProductKey(req.product_id, req.product_type)
        result_json == ModelDumpJson(res)
        c1 == Setex(c, cache_key, CACHE_TTL_SECONDS, result_json, t)
        c2 == Setex(c1, product_key, CACHE_TTL_SECONDS, result_json, t)
    IN  CASE fail = "first"  -> [cache |-> c,  ret |-> FALSE]
          [] fail = "second" -> [cache |-> c1, ret |-> FALSE]
          [] OTHER           -> [cache |-> c2, ret |-> TRUE]

ScanMatch(c, product_type) ==
    {k \in DOMAIN c : k[1] = "rec" /\ k[2] = product_type}

\* fail: "none", "scan" (the scan loop raises after deleting the keys in
\* deleted) or "delete" (the delete of the product key raises)
\* variant: the product-level key is left in place
Invalidate_KeepsProductKey(c, product_id, product_type, deleted, fail) ==
    LET matching == ScanMatch(c, product_type)
    IN  CASE fail = "scan" -> [cache |-> Delete(c, deleted), ret |-> 0]
          [] fail = "delete" -> [cache |-> Delete(c, matching), ret |-> 0]
          [] OTHER -> [cache |-> Delete(c, matching),
                       ret |-> Cardinality(matching) + 1]

Invalidate(c, product_id, product_type, deleted, fail) ==
    LET matching == ScanMatch(c, product_type)
        product_key == GenerateProductKey(product_id, product_type)
    IN  CASE fail = "scan"   -> [cache |-> Delete(c, deleted), ret |-> 0]
          [] fail = "delete" -> [cache |-> Delete(c, matching), ret |-> 0]
          [] OTHER -> [cache |-> Delete(c, matching \cup {product_key}),
                       ret |-> Cardinality(matching) + 1]

(***************************************************************************)
(* Repository reads, embedding, index search and ranking.                  *)
(***************************************************************************)
\* _get_product_details: ProductType has the single member VEHICLE, so the
\* vehicle branch is the one that runs.
GetProductDetails(product_id, product_type) ==
    LET uuid_id == UUID(product_id)
    IN  IF uuid_id = <<>> THEN <<>>
        ELSE IF uuid_id[1] \in VehicleIds
        THEN <<[product_id |-> uuid_id[1],
                product_type |-> product_type,
                description |-> uuid_id[1],
                disponible |-> Vehicles[uuid_id[1]].disponible,
                reputation |-> Vehicles[uuid_id[1]].note_moyenne]>>
        ELSE <<>>

\* the ids of product_ids for which a record was found
GetMultipleProductDetails(product_ids, product_type) ==
    {product_ids[i] : i \in {j \in 1..Len(product_ids) :
        GetProductDetails(product_ids[j], product_type) # <<>>}}

\* The embedding of a description is identified with the description.
EncodeForQdrant(description) == description

Closer(p, o, query_vector) ==
    \/ Cosine(query_vector, p.real_product_id)
         > Cosine(query_vector, o.real_product_id)
    \/ /\ Cosine(query_vector, p.real_product_id)
            = Cosine(query_vector, o.real_product_id)
       /\ p.id <= o.id

RECURSIVE Nearest(_, _, _)
Nearest(S, query_vector, limit) ==
    IF limit = 0 \/ S = {} THEN <<>>
    ELSE LET best == CHOOSE p \in S : \A o \in S : Closer(p, o, query_vector)
         IN  <<[product_id |-> best.real_product_id,
                similarity_score |-> Cosine(query_vector, best.real_product_id),
                vector_id |-> best.id]>>
             \o Nearest(S \ {best}, query_vector, limit - 1)

\* VectorStore.search: the limit nearest points; [] on a client error
Search(query_vector, top_k, index_ok) ==
    IF index_ok THEN Nearest(Points, query_vector, top_k) ELSE <<>>

Take(s, n) == SubSeq(s, 1, Min(n, Len(s)))

ComputeFinalScore(similarity_score, availability, reputation) ==
    LET availability_score == IF availability THEN 10000 ELSE 0
        reputation_normalized ==
            IF reputation # 0 THEN Min(reputation * 200, 10000) ELSE 0
    IN  Round(similarity_weight * similarity_score
              + availability_weight * availability_score
              + reputation_weight * reputation_normalized, 10000)

\* variant: the list is left in search order
SortByFinalScore_Unsorted(s) == s

\* list.sort(key=final_score, reverse=True): stable, descending
RECURSIVE SortByFinalScore(_)
SortByFinalScore(s) ==
    IF s = <<>> THEN <<>>
    ELSE LET i == CHOOSE k \in 1..Len(s) :
                    /\ \A m \in 1..Len(s) : s[k].final_score >= s[m].final_score
                    /\ \A m \in 1..(k - 1) : s[m].final_score < s[k].final_score
         IN  <<s[i]>> \o SortByFinalScore(SubSeq(s, 1, i - 1)
                                          \o SubSeq(s, i + 1, Len(s)))

RankProducts(similar_products, product_details, product_type) ==
    LET kept == SelectSeq(similar_products,
                          LAMBDA sp : sp.product_id \in product_details)
        scored == [i \in 1..Len(kept) |->
            LET d == GetProductDetails(kept[i].product_id, product_type)[1]
            IN  [product_id |-> kept[i].product_id,
                 product_type |-> product_type,
                 similarity_score |-> kept[i].similarity_score,
                 availability_score |-> IF d.disponible THEN 10000 ELSE 0,
                 reputation_score |-> d.reputation * 200,
                 final_score |-> ComputeFinalScore(kept[i].similarity_score,
                                                   d.disponible, d.reputation),
                 rank |-> 0]]
        sorted == SortByFinalScore(scored)
    IN  [i \in 1..Len(sorted) |-> [sorted[i] EXCEPT !.rank = i]]

NoKey == <<>>

NewResult(req, ranked_products, t) ==
    [client_id |-> req.client_id,
     reference_product_id |-> req.product_id,
     sentiment_score |-> req.sentiment_score,
     product_type |-> req.product_type,
     recommendations |-> ranked_products,
     total_results |-> Len(ranked_products),
     cached |-> FALSE,
     cache_key |-> NoKey,
     processed_at |-> t]

EmptyResult(req, t) == NewResult(req, <<>>, t)

(***************************************************************************)
(* Request context (src/utils/context.py), the middleware that sets it for *)
(* an HTTP request and the Celery tasks that run on the worker.  A context *)
(* is the record of the three ContextVars; a dict (the request headers,    *)
(* the kwargs of a task message) is a function from its keys.              *)
(***************************************************************************)
\* the default of the three ContextVars
None == "None"

NoContext == [correlation_id |-> None, user_id |-> None, session_id |-> None]

\* dict.get(key, default)
Get(d, key, default) == IF key \in DOMAIN d THEN d[key] ELSE default

\* Python truth value of an Optional[str]
Truthy(v) == v \notin {None, ""}

get_correlation_id(ctx) == ctx.correlation_id

set_correlation_id(ctx, correlation_id) ==
    IF ~Truthy(correlation_id) THEN ctx
    ELSE [ctx EXCEPT !.correlation_id = correlation_id]

clear_correlation_id(ctx) == [ctx EXCEPT !.correlation_id = None]

set_user_id(ctx, user_id) == [ctx EXCEPT !.user_id = user_id]

clear_user_id(ctx) == [ctx EXCEPT !.user_id = None]

set_session_id(ctx, session_id) == [ctx EXCEPT !.session_id = session_id]

clear_session_id(ctx) == [ctx EXCEPT !.session_id = None]

clear_all_context_KeepsSession(ctx) ==
    clear_user_id(clear_correlation_id(ctx))

clear_all_context(ctx) ==
    clear_session_id(clear_user_id(clear_correlation_id(ctx)))

\* CorrelationIdMiddleware.dispatch up to call_next: the ambient values
\* after the three headers were read; "uuid4" is str(uuid.uuid4()), the id
\* the middleware generates
DispatchContext(ctx, headers) ==
    LET correlation_id == Get(headers, "X-Correlation-ID", "uuid4")
        user_id == Get(headers, "X-User-ID", None)
        session_id == Get(headers, "X-Session-ID", None)
        c1 == set_correlation_id(ctx, correlation_id)
        c2 == IF Truthy(user_id) THEN set_user_id(c1, user_id) ELSE c1
    IN  IF Truthy(session_id) THEN set_session_id(c2, session_id) ELSE c2

\* the keyword arguments Orchestrator.process_async hands to
\* process_full_workflow_task.delay
ProcessAsyncKwargs(product_id, client_id, commentaire, product_type, top_k) ==
    [k \in {"product_id", "client_id", "commentaire", "product_type",
            "top_k"} |->
        CASE k = "product_id" -> product_id
          [] k = "client_id" -> client_id
          [] k = "commentaire" -> commentaire
          [] k = "product_type" -> product_type
          [] OTHER -> top_k]

\* Task.retry(exc=e) as the except clause of a task body calls it: the
\* message is published again while retries remain, the exception is
\* raised again once they are used up
retry_OffByOne(task, exc) ==
    IF task.retries > max_retries
    THEN [task EXCEPT !.status = "FAILURE", !.error = exc]
    ELSE [task EXCEPT !.status = "RETRY", !.error = exc,
                      !.retries = task.retries + 1]

retry(task, exc) ==
    IF task.retries + 1 > max_retries
    THEN [task EXCEPT !.status = "FAILURE", !.error = exc]
    ELSE [task EXCEPT !.status = "RETRY", !.error = exc,
                      !.retries = task.retries + 1]

\* celery_app.conf.task_routes: the routes are looked up by the name of the
\* task
task_routes ==
    [n \in {"src.modules.module3_orchestration.tasks.process_recommendation_task",
            "src.modules.module3_orchestration.tasks.process_sentiment_task",
            "src.modules.module3_orchestration.tasks.vectorize_products_task"} |->
        CASE n = "src.modules.module3_orchestration.tasks.process_recommendation_task"
                -> "recommendations"
          [] n = "src.modules.module3_orchestration.tasks.process_sentiment_task"
                -> "sentiment"
          [] OTHER -> "vectorization"]

\* the queue a message of this task name is published on: its route, or
\* task_default_queue
Route(name) == Get(task_routes, name, "default")

\* the names the decorators of tasks.py register the five tasks under
RegisteredTasks ==
    {"process_sentiment", "process_recommendation", "process_full_workflow",
     "vectorize_products", "health_check"}

\* the task that the only entry of celery_app.conf.beat_schedule names
beat_schedule == "src.modules.module3_orchestration.tasks.health_check_task"

\* a message as delay() publishes it; origin is the correlation id of the
\* HTTP request that published it (None for another publisher), body says
\* how the collaborators of the task body behave
NewTask(kwargs, origin, body) ==
    [name |-> "process_full_workflow", kwargs |-> kwargs, origin |-> origin,
     body |-> body, status |-> "PENDING", retries |-> 0, executions |-> 0,
     error |-> <<>>, queue |-> Route("process_full_workflow")]

\* entry and last are history: the ambient values an execution found when
\* it started and those the last finished execution had before its finally
\* clause; parent is the ambient values at the time a nested scope opened
InitTasks ==
    /\ tasks = <<>>
    /\ worker = [task |-> 0, ctx |-> NoContext, entry |-> NoContext,
                 last |-> NoContext]
    /\ http = [pc |-> "idle", ctx |-> NoContext, entry |-> NoContext,
               correlation_id |-> None, depth |-> 0, parent |-> NoContext,
               last |-> NoContext, raised |-> FALSE]

(***************************************************************************)
(* Lazy model loading (EmbeddingService._load_model,                       *)
(* SentimentAnalyzer._load_model).  A service object is the one its        *)
(* process shares (get_embedding_service, the analyzer an Orchestrator     *)
(* keeps), owner 0, or one that the caller constructs for the call         *)
(* (SentimentAnalyzer() in the sentiment routes and in the tasks,          *)
(* EmbeddingService() in vectorize_products_task), owned by the caller.    *)
(***************************************************************************)
Services == {"embedding", "sentiment"}

\* the threads of one process that call the services
Callers == {1, 2}

InitModels ==
    /\ model_of = [i \in Services \X ({0} \cup Callers) |-> 0]
    /\ loads = [s \in Services |-> 0]
    /\ callers = [c \in Callers |->
           [pc |-> "idle", service |-> "sentiment", owner |-> 0, used |-> 0]]

(***************************************************************************)
(* Sentiment analysis (src/modules/module1_sentiment/analyzer.py).  The    *)
(* probabilities a model returns are integers in hundred-thousandths; the  *)
(* score round(x, 4) returns is an integer in ten-thousandths, and the     *)
(* score before rounding is kept exact as the fraction num / den.  The     *)
(* outputs drawn below stay away from the ties of round(x, 4).             *)
(***************************************************************************)
RECURSIVE MaxOf(_)
MaxOf(s) ==
    IF Len(s) = 1 THEN s[1]
    ELSE LET m == MaxOf(Tail(s)) IN IF s[1] >= m THEN s[1] ELSE m

\* torch.argmax: the index, from 0, of the first largest probability
ArgMax(s) == (CHOOSE i \in 1..Len(s) :
                 /\ s[i] = MaxOf(s)
                 /\ \A j \in 1..(i - 1) : s[j] < s[i]) - 1

\* sum((i + 1) * p for i, p in enumerate(probabilities))
RECURSIVE WeightedSum(_, _)
WeightedSum(s, i) ==
    IF i > Len(s) THEN 0 ELSE i * s[i] + WeightedSum(s, i + 1)

positive_threshold == 20
negative_threshold == -20

\* _compute_sentiment_score: <<raised, sentiment_score, sentiment_label,
\* confidence>>; the label is taken from the score before it is rounded
ComputeSentimentScore(probabilities, predicted_class) ==
    LET num_classes == Len(probabilities)
        confidence == MaxOf(probabilities)
        num == CASE num_classes = 2 -> probabilities[2] - probabilities[1]
                 [] num_classes = 3 -> probabilities[3] - probabilities[1]
                 [] num_classes = 5 ->
                        WeightedSum(probabilities, 1) - 300000
                 [] OTHER -> 2 * predicted_class - (num_classes - 1)
        den == CASE num_classes \in {2, 3} -> 100000
                 [] num_classes = 5 -> 200000
                 [] OTHER -> num_classes - 1
        sentiment_label ==
            IF 100 * num > positive_threshold * den THEN "positive"
            ELSE IF 100 * num < negative_threshold * den THEN "negative"
            ELSE "neutral"
    IN  IF den = 0 THEN <<TRUE, 0, "neutral", 0>>
        ELSE <<FALSE, Round(10000 * num, den), sentiment_label, confidence>>

\* the constraints of the SentimentResult schema
ValidSentimentResult(sentiment_score, confidence) ==
    /\ sentiment_score >= -10000 /\ sentiment_score <= 10000
    /\ confidence >= 0 /\ confidence <= 100000

SentimentResult(input_data, sentiment_score, sentiment_label, confidence) ==
    [client_id |-> input_data.client_id,
     product_id |-> input_data.product_id,
     sentiment_score |-> sentiment_score,
     sentiment_label |-> sentiment_label,
     confidence |-> confidence,
     product_type |-> input_data.product_type]

\* the result of the except clause of analyze
NeutralResult(input_data) == SentimentResult(input_data, 0, "neutral", 0)

\* analyze: fault is the step of _predict that raises ("none" when none
\* does), probabilities what the model returns; the value is
\* <<raised, result>>
analyze_Propagates(input_data, fault, probabilities) ==
    LET computed == ComputeSentimentScore(probabilities, ArgMax(probabilities))
    IN  IF fault # "none" \/ computed[1]
           \/ ~ValidSentimentResult(computed[2], computed[4])
        THEN <<TRUE, NeutralResult(input_data)>>
        ELSE <<FALSE, SentimentResult(input_data, computed[2], computed[3],
                                      computed[4])>>

analyze(input_data, fault, probabilities) ==
    LET computed == ComputeSentimentScore(probabilities, ArgMax(probabilities))
    IN  IF fault # "none" \/ computed[1]
           \/ ~ValidSentimentResult(computed[2], computed[4])
        THEN <<FALSE, NeutralResult(input_data)>>
        ELSE <<FALSE, SentimentResult(input_data, computed[2], computed[3],
                                      computed[4])>>

SentimentInput(product_id, client_id, commentaire, product_type) ==
    [product_id |-> product_id, client_id |-> client_id,
     commentaire |-> commentaire, product_type |-> product_type]

(***************************************************************************)
(* Courier ranking (src/modules/module4_livreur_ranking).  Distances and   *)
(* tolerances are integers in tenths of a kilometre.  The points lie on    *)
(* the equator, where the haversine formula gives R * |lon2 - lon1|; a     *)
(* longitude is counted in the angle that spans a tenth of a kilometre.    *)
(***************************************************************************)
PointSchema(latitude, longitude) ==
    [latitude |-> latitude, longitude |-> longitude]

\* haversine_distance, for two points of the equator
haversine_distance(lat1, lon1, lat2, lon2) == Abs(lon2 - lon1)

\* calculate_total_distance of a courier at l, a pickup at p and a
\* drop-off at d: <<dist_to_pickup, dist_pickup_to_delivery, total_distance>>
calculate_total_distance(l, p, d) ==
    LET dist_to_pickup ==
            haversine_distance(l.latitude, l.longitude, p.latitude, p.longitude)
        dist_pickup_to_delivery ==
            haversine_distance(p.latitude, p.longitude, d.latitude, d.longitude)
    IN  <<dist_to_pickup, dist_pickup_to_delivery,
          dist_to_pickup + dist_pickup_to_delivery>>

\* calculate_ellipse_dmax for the focal points f1 and f2
calculate_ellipse_dmax(f1, f2, tolerance_km) ==
    haversine_distance(f1.latitude, f1.longitude, f2.latitude, f2.longitude)
        + 2 * tolerance_km

\* a filter whose ellipse shrinks as the tolerance grows
InEllipse_Tightens(livreur, point_ramassage, point_livraison, tolerance_km) ==
    calculate_total_distance(livreur.position_actuelle, point_ramassage,
                             point_livraison)[3] + 2 * tolerance_km
        <= calculate_ellipse_dmax(point_ramassage, point_livraison, 0) + 60

\* the test in the loop of filter_by_ellipse: total_dist <= dmax
InEllipse(livreur, point_ramassage, point_livraison, tolerance_km) ==
    calculate_total_distance(livreur.position_actuelle, point_ramassage,
                             point_livraison)[3]
        <= calculate_ellipse_dmax(point_ramassage, point_livraison,
                                  tolerance_km)

\* filter_by_ellipse: <<eligible, rejected>>, both in the order of
\* livreurs; rejected holds the dict the loop appends for each courier it
\* refuses
RECURSIVE filter_by_ellipse(_, _, _, _)
filter_by_ellipse(livreurs, point_ramassage, point_livraison, tolerance_km) ==
    IF livreurs = <<>> THEN <<<<>>, <<>>>>
    ELSE LET livreur == Head(livreurs)
             rest == filter_by_ellipse(Tail(livreurs), point_ramassage,
                                       point_livraison, tolerance_km)
             total == calculate_total_distance(
                          livreur.position_actuelle, point_ramassage,
                          point_livraison)
             rejection ==
                 [livreur_id |-> livreur.livreur_id,
                  nom_commercial |-> livreur.nom_commercial,
                  raison |-> "hors_zone_ellipse",
                  distance_totale_km |-> total[3],
                  distance_max_km |->
                      calculate_ellipse_dmax(point_ramassage, point_livraison,
                                             tolerance_km),
                  distance_ramassage_km |-> total[1]]
         IN  IF InEllipse(livreur, point_ramassage, point_livraison,
                          tolerance_km)
             THEN <<<<livreur>> \o rest[1], rest[2]>>
             ELSE <<rest[1], <<rejection>> \o rest[2]>>

SPATIAL_TOLERANCE_KM ==
    [t \in {"standard", "express", "sameday"} |->
        CASE t = "standard" -> 25 [] t = "express" -> 15 [] OTHER -> 10]

\* the outcome of a constructor or of a call: a value or a raised exception
Returned(value) == [raised |-> "none", value |-> <<value>>]
Raised(exception) == [raised |-> exception, value |-> <<>>]

\* StatistiquesFiltrageSchema: livreurs_rejetes is declared List[str], and
\* every element filter_by_ellipse produces is a dict, which the schema
\* refuses
StatistiquesFiltrageSchema(total_candidats, eligibles, livreurs_rejetes) ==
    IF Len(livreurs_rejetes) > 0 THEN Raised("ValidationError")
    ELSE Returned([total_candidats |-> total_candidats,
                   candidats_eligibles |-> eligibles,
                   candidats_rejetes |-> Len(livreurs_rejetes),
                   livreurs_rejetes |-> livreurs_rejetes])

\* MetadataSchema: poids_ahp is a required PoidsAHPSchema, <<>> stands for
\* None and <<w>> for the weights w
MetadataSchema(type_livraison, tolerance_km, statistiques, poids_ahp) ==
    IF statistiques.raised # "none" THEN statistiques
    ELSE IF poids_ahp = <<>> THEN Raised("ValidationError")
    ELSE Returned([type_livraison |-> type_livraison,
                   tolerance_spatiale_km |-> tolerance_km,
                   statistiques_filtrage |-> statistiques.value[1],
                   poids_ahp |-> poids_ahp[1],
                   duree_traitement_ms |-> 0])

\* RankingResponseSchema with status success; warnings is <<>> for None,
\* else <<the list>>
RankingResponseSchema(annonce_id, livreurs_classes, metadata, warnings) ==
    IF metadata.raised # "none" THEN metadata
    ELSE Returned([status |-> "success", annonce_id |-> annonce_id,
                   livreurs_classes |-> livreurs_classes,
                   metadata |-> metadata.value[1], warnings |-> warnings])

\* Orchestrator._create_empty_response
create_empty_response(annonce, total_candidats, rejetes, tolerance_km) ==
    RankingResponseSchema(
        annonce.annonce_id, <<>>,
        MetadataSchema(annonce.type_livraison, tolerance_km,
                       StatistiquesFiltrageSchema(total_candidats, 0, rejetes),
                       <<>>),
        <<<<"aucun_livreur_eligible">>>>)

(***************************************************************************)
(* AHP weights and TOPSIS ranking.  Weights and the TOPSIS scores are      *)
(* integers in ten-thousandths, normalised criteria in thousandths; the    *)
(* comparison matrices are kept exact, each entry as the pair              *)
(* <<numerator, denominator>>.  Reputations are in tenths, capacities in   *)
(* kilograms, vehicle scores in tenths.                                    *)
(***************************************************************************)
\* the six comparisons of each urgency: proximity against reputation,
\* capacity and vehicle, reputation against capacity and vehicle, capacity
\* against vehicle
AHP_MATRICES ==
    [t \in {"standard", "express", "sameday"} |->
        CASE t = "standard" -> <<2, 3, 5, 2, 3, 2>>
          [] t = "express" -> <<4, 5, 6, 2, 3, 2>>
          [] OTHER -> <<6, 7, 7, 2, 2, 1>>]

\* build_comparison_matrix: the upper triangle from the comparisons, the
\* lower one from their reciprocals
build_comparison_matrix(type_livraison) ==
    LET c == AHP_MATRICES[type_livraison]
        upper == [p \in {<<1, 2>>, <<1, 3>>, <<1, 4>>, <<2, 3>>, <<2, 4>>,
                         <<3, 4>>} |->
                     CASE p = <<1, 2>> -> c[1] [] p = <<1, 3>> -> c[2]
                       [] p = <<1, 4>> -> c[3] [] p = <<2, 3>> -> c[4]
                       [] p = <<2, 4>> -> c[5] [] OTHER -> c[6]]
    IN  [i \in 1..4 |-> [j \in 1..4 |->
            IF i = j THEN <<1, 1>>
            ELSE IF i < j THEN <<upper[<<i, j>>], 1>>
            ELSE <<1, upper[<<j, i>>]>>]]

\* the common denominator of the entries 1/k, k in 1..9 of the Saaty
\* scale: an entry <<a, b>> is a * 2520 / b times 1/2520
SaatyDenominator == 2520

\* calculate_weights: column sums, normalised columns, row averages
calculate_weights(matrix) ==
    LET entry(i, j) == (matrix[i][j][1] * SaatyDenominator) \div matrix[i][j][2]
        column_sums == [j \in 1..4 |->
            entry(1, j) + entry(2, j) + entry(3, j) + entry(4, j)]
        normalized == [i \in 1..4 |-> [j \in 1..4 |->
            (entry(i, j) * 100000) \div column_sums[j]]]
        means == [i \in 1..4 |->
            normalized[i][1] + normalized[i][2] + normalized[i][3]
                + normalized[i][4]]
        total == means[1] + means[2] + means[3] + means[4]
    IN  [i \in 1..4 |-> Round(means[i] * 1000, total \div 10)]

RANDOM_INDEX_4 == 90
AHP_CONSISTENCY_THRESHOLD == 10

\* check_consistency: CR = ((lambda_max - n) / (n - 1)) / RI in
\* ten-thousandths, and whether CR < 0.1
check_consistency(matrix, weights) ==
    LET entry(i, j) == (matrix[i][j][1] * SaatyDenominator) \div matrix[i][j][2]
        weighted_sum == [i \in 1..4 |->
            entry(i, 1) * weights[1] + entry(i, 2) * weights[2]
                + entry(i, 3) * weights[3] + entry(i, 4) * weights[4]]
        \* lambda in thousandths
        lambda_values == [i \in 1..4 |->
            ((weighted_sum[i] \div weights[i]) * 1000) \div SaatyDenominator]
        lambda_max == (lambda_values[1] + lambda_values[2] + lambda_values[3]
                       + lambda_values[4]) \div 4
        \* (lambda_max - 4) / 3 / 0.90
        cr == ((lambda_max - 4000) * 1000) \div (3 * RANDOM_INDEX_4)
    IN  <<cr, cr < AHP_CONSISTENCY_THRESHOLD * 100>>

\* calculate_criteria_weights: <<weights_dict, consistency_info>>
calculate_criteria_weights(type_livraison) ==
    LET matrix == build_comparison_matrix(type_livraison)
        weights_array == calculate_weights(matrix)
        consistency == check_consistency(matrix, weights_array)
    IN  <<[proximite_geographique |-> weights_array[1],
           reputation |-> weights_array[2],
           capacite |-> weights_array[3],
           type_vehicule |-> weights_array[4]],
          [CR |-> consistency[1], est_coherent |-> consistency[2],
           seuil |-> AHP_CONSISTENCY_THRESHOLD]>>

VEHICLE_TYPE_SCORES ==
    [t \in {"velo", "moto", "voiture", "camion"} |->
        CASE t = "velo" -> 1 [] t = "moto" -> 3 [] t = "voiture" -> 8
          [] OTHER -> 10]

\* np.sqrt: the integer part of the square root of n, found by bisection
Sqrt(n) ==
    LET RECURSIVE Bisect(_, _)
        Bisect(lo, hi) ==
            IF lo >= hi THEN lo
            ELSE LET mid == (lo + hi + 1) \div 2
                 IN  IF mid * mid <= n THEN Bisect(mid, hi)
                     ELSE Bisect(lo, mid - 1)
    IN  Bisect(0, 46340)

\* calculate_total_distance for each eligible courier, by livreur_id
calculate_distances_for_livreurs(livreurs, point_ramassage, point_livraison) ==
    [id \in {livreurs[i].livreur_id : i \in 1..Len(livreurs)} |->
        LET i == CHOOSE k \in 1..Len(livreurs) :
                    /\ livreurs[k].livreur_id = id
                    /\ \A m \in (k + 1)..Len(livreurs) :
                          livreurs[m].livreur_id # id
        IN  calculate_total_distance(livreurs[i].position_actuelle,
                                     point_ramassage, point_livraison)[3]]

\* build_decision_matrix: one row of four criteria per courier
build_decision_matrix(livreurs, distances) ==
    [i \in 1..Len(livreurs) |->
        <<distances[livreurs[i].livreur_id], livreurs[i].reputation,
          livreurs[i].capacite_max_kg,
          VEHICLE_TYPE_SCORES[livreurs[i].type_vehicule]>>]

\* normalize_matrix: each column divided by its Euclidean norm (1 when
\* the norm is 0), in thousandths
normalize_matrix(matrix) ==
    LET m == Len(matrix)
        RECURSIVE SumSq(_, _)
        SumSq(j, i) == IF i > m THEN 0
                       ELSE matrix[i][j] * matrix[i][j] + SumSq(j, i + 1)
        \* ten times the norm of column j
        norm10(j) == LET n == Sqrt(100 * SumSq(j, 1))
                     IN  IF n = 0 THEN 10 ELSE n
    IN  [i \in 1..m |-> [j \in 1..4 |-> (matrix[i][j] * 10000) \div norm10(j)]]

\* apply_weights, in ten-thousandths
apply_weights(normalized_matrix, weights) ==
    LET weight_vector == <<weights.proximite_geographique, weights.reputation,
                           weights.capacite, weights.type_vehicule>>
    IN  [i \in 1..Len(normalized_matrix) |-> [j \in 1..4 |->
            (normalized_matrix[i][j] * weight_vector[j]) \div 1000]]

\* calculate_ideal_solutions: <<A_positive, A_negative>>; the first
\* criterion, the distance, is a cost and the three others are benefits
calculate_ideal_solutions(weighted_matrix) ==
    LET column(j) == {weighted_matrix[i][j] : i \in 1..Len(weighted_matrix)}
        max(j) == CHOOSE x \in column(j) : \A y \in column(j) : y <= x
        min(j) == CHOOSE x \in column(j) : \A y \in column(j) : x <= y
    IN  <<[j \in 1..4 |-> IF j = 1 THEN min(j) ELSE max(j)],
          [j \in 1..4 |-> IF j = 1 THEN max(j) ELSE min(j)]>>

\* calculate_distances: the Euclidean distance of a row to an ideal
\* solution
EuclideanDistance(row, ideal) ==
    Sqrt((row[1] - ideal[1]) * (row[1] - ideal[1])
         + (row[2] - ideal[2]) * (row[2] - ideal[2])
         + (row[3] - ideal[3]) * (row[3] - ideal[3])
         + (row[4] - ideal[4]) * (row[4] - ideal[4]))

\* calculate_similarity_scores for one row: d- / (d+ + d-), the sum
\* replaced by 1e-10 when it is 0
SimilarityScore(distance_positive, distance_negative) ==
    IF distance_positive + distance_negative = 0 THEN 0
    ELSE (distance_negative * 10000)
             \div (distance_positive + distance_negative)

\* variant: the results are left in the order of the candidates
SortByScore_Unsorted(results) == results

\* list.sort(key=score_final, reverse=True): descending, and elements of
\* equal score keep the order they had
RECURSIVE SortByScore(_)
SortByScore(results) ==
    IF Len(results) <= 1 THEN results
    ELSE LET i == CHOOSE k \in 1..Len(results) :
                    /\ \A m \in 1..Len(results) :
                          results[m].score_final <= results[k].score_final
                    /\ \A m \in 1..(k - 1) :
                          results[m].score_final < results[k].score_final
         IN  <<results[i]>>
                 \o SortByScore(SubSeq(results, 1, i - 1)
                                \o SubSeq(results, i + 1, Len(results)))

\* TOPSISRanker.rank
TopsisRank(livreurs, distances, weights) ==
    LET decision_matrix == build_decision_matrix(livreurs, distances)
        weighted_matrix ==
            apply_weights(normalize_matrix(decision_matrix), weights)
        ideal == calculate_ideal_solutions(weighted_matrix)
        results == [i \in 1..Len(livreurs) |->
            LET distance_positive ==
                    EuclideanDistance(weighted_matrix[i], ideal[1])
                distance_negative ==
                    EuclideanDistance(weighted_matrix[i], ideal[2])
            IN  [livreur_id |-> livreurs[i].livreur_id,
                 score_final |->
                     SimilarityScore(distance_positive, distance_negative),
                 distance_A_positive |-> distance_positive,
                 distance_A_negative |-> distance_negative]]
    IN  SortByScore(results)

\* LivreurClasseSchema: rang >= 1 and 0 <= score_final <= 1
LivreurClasseSchema(rang, livreur_id, score_final) ==
    IF rang < 1 \/ score_final < 0 \/ score_final > 10000
    THEN Raised("ValidationError")
    ELSE Returned([rang |-> rang, livreur_id |-> livreur_id,
                   score_final |-> score_final])

\* Orchestrator._format_ranked_livreurs: with include_details the first
\* result builds DetailScoresSchema from criteres_bruts, criteres_normalises
\* and criteres_ponderes, none of which is a field of the schema, while its
\* four required fields are missing
format_ranked_livreurs(topsis_results, include_details) ==
    LET classes == [i \in 1..Len(topsis_results) |->
            LivreurClasseSchema(i, topsis_results[i].livreur_id,
                                topsis_results[i].score_final)]
    IN  IF include_details /\ Len(topsis_results) > 0
        THEN Raised("ValidationError")
        ELSE IF \E i \in 1..Len(classes) : classes[i].raised # "none"
        THEN Raised("ValidationError")
        ELSE Returned([i \in 1..Len(classes) |-> classes[i].value[1]])

\* Orchestrator._generate_warnings: <<>> for None
generate_warnings(consistency_info) ==
    IF ~consistency_info.est_coherent THEN <<<<"ahp_incoherent">>>> ELSE <<>>

\* a LivreurCandidatSchema standing on the equator
LivreurCandidatSchema(livreur_id, longitude, reputation, capacite, vehicule) ==
    [livreur_id |-> livreur_id, nom_commercial |-> livreur_id,
     position_actuelle |-> PointSchema(0, longitude),
     reputation |-> reputation, capacite_max_kg |-> capacite,
     type_vehicule |-> vehicule]

\* no call of rank_livreurs yet, no scene set up for the filter and no
\* matrix given to the calculator
InitRanking ==
    /\ ranking =
         [pc |-> "idle",
          request |->
              [annonce |-> [annonce_id |-> "",
                            point_ramassage |-> PointSchema(0, 0),
                            point_livraison |-> PointSchema(0, 0),
                            type_livraison |-> "standard"],
               livreurs_candidats |-> <<>>, options |-> <<>>],
          include_details |-> FALSE, tolerance_km |-> 0, eligible |-> <<>>,
          rejected |-> <<>>, distances |-> <<>>, weights |-> <<>>,
          topsis_results |-> <<>>, outcome |-> Raised("none")]
    /\ filtering =
         [livreurs |-> <<>>, point_ramassage |-> PointSchema(0, 0),
          point_livraison |-> PointSchema(0, 0), runs |-> <<>>]
    /\ weighting = [matrix |-> <<>>, outcome |-> Raised("none")]

(***************************************************************************)
(* State machine.  Each execution context (an HTTP request handler or a    *)
(* worker task) carries one request through the stages of recommend or     *)
(* recommend_sync; an operator invalidates; the clock advances.            *)
(***************************************************************************)
NoRequest ==
    [client_id |-> "", product_id |-> "", sentiment_score |-> 0,
     product_type |-> VEHICLE, top_k |-> 1]

NotProbed == [kind |-> "none", data |-> <<>>, raised |-> FALSE]

EmptyMap == [x \in {} |-> 0]

Init ==
    /\ cache = EmptyMap
    /\ now = 0
    /\ submitted = 0
    /\ pc = [p \in Contexts |-> "idle"]
    /\ request = [p \in Contexts |-> NoRequest]
    /\ path = [p \in Contexts |-> "recommend"]
    /\ hit = [p \in Contexts |-> NotProbed]
    /\ similar = [p \in Contexts |-> <<>>]
    /\ result = [p \in Contexts |-> <<>>]
    /\ stages = [p \in Contexts |-> {}]
    /\ error = [p \in Contexts |-> "none"]
    /\ store_ret = [p \in Contexts |-> "none"]
    /\ cache_err = [p \in Contexts |-> {}]
    /\ inv_ret = -1
    /\ inv_err = FALSE
    /\ last_put = EmptyMap
    /\ invalidated = {}
    /\ InitTasks
    /\ InitModels
    /\ analysis =
      [pc |-> "idle", input_data |-> SentimentInput("", "", "", VEHICLE),
       fault |-> "none", probabilities |-> <<>>, raised |-> FALSE,
       result |-> NeutralResult(SentimentInput("", "", "", VEHICLE)),
       rec_request |-> <<>>]
    /\ InitRanking
    /\ collection = [exists |-> FALSE, points |-> [p \in VehicleIds |-> 0],
                     runs |-> <<>>, faults |-> 0]

\* the variables of the keyspace, its history and the operator's call
cacheVars == <<cache, last_put, invalidated, inv_ret, inv_err>>

\* An HTTP request enters recommend; a task enters recommend_sync
\* (process_recommendation_task, process_full_workflow_task).
Submit(p, req, entry) ==
    /\ pc[p] = "idle"
    /\ submitted < MaxRequests
    /\ submitted' = submitted + 1
    /\ request' = [request EXCEPT ![p] = req]
    /\ path' = [path EXCEPT ![p] = entry]
    /\ pc' = [pc EXCEPT ![p] =
                IF entry = "recommend" THEN "cache_get" ELSE "anchor"]
    /\ UNCHANGED <<cacheVars, now, hit, similar, result, stages, error,
                   store_ret, cache_err>>
    /\ UNCHANGED auxVars

\* variant: a stored list is cut to the top_k of the request it answers
CacheProbe_TruncatesToTopK(p) ==
    /\ pc[p] = "cache_get"
    /\ \E backend_ok \in BOOLEAN :
        LET cached_result == GetCachedResult(cache, request[p], backend_ok)
        IN  /\ hit' = [hit EXCEPT ![p] = cached_result]
            /\ cache_err' = [cache_err EXCEPT ![p] =
                    IF backend_ok THEN @ ELSE @ \cup {"get"}]
            /\ IF cached_result.raised
               THEN /\ pc' = [pc EXCEPT ![p] = "failed"]
                    /\ error' = [error EXCEPT ![p] = "cache"]
                    /\ UNCHANGED result
               ELSE IF cached_result.data # <<>>
               THEN /\ pc' = [pc EXCEPT ![p] = "done"]
                    /\ result' = [result EXCEPT ![p] =
                          <<[cached_result.data[1] EXCEPT !.recommendations =
                                Take(@, request[p].top_k)]>>]
                    /\ UNCHANGED error
               ELSE /\ pc' = [pc EXCEPT ![p] = "anchor"]
                    /\ UNCHANGED <<result, error>>
    /\ stages' = [stages EXCEPT ![p] = @ \cup {"get_cached_result"}]
    /\ UNCHANGED <<cacheVars, now, submitted, request, path, similar,
                   store_ret>>
    /\ UNCHANGED auxVars

\* recommend, step 1: the cache probe
CacheProbe(p) ==
    /\ pc[p] = "cache_get"
    /\ \E backend_ok \in BOOLEAN :
        LET cached_result == GetCachedResult(cache, request[p], backend_ok)
        IN  /\ hit' = [hit EXCEPT ![p] = cached_result]
            /\ cache_err' = [cache_err EXCEPT ![p] =
                    IF backend_ok THEN @ ELSE @ \cup {"get"}]
            /\ IF cached_result.raised
               THEN /\ pc' = [pc EXCEPT ![p] = "failed"]
                    /\ error' = [error EXCEPT ![p] = "cache"]
                    /\ UNCHANGED result
               ELSE IF cached_result.data # <<>>
               THEN /\ pc' = [pc EXCEPT ![p] = "done"]
                    /\ result' = [result EXCEPT ![p] = cached_result.data]
                    /\ UNCHANGED error
               ELSE /\ pc' = [pc EXCEPT ![p] = "anchor"]
                    /\ UNCHANGED <<result, error>>
    /\ stages' = [stages EXCEPT ![p] = @ \cup {"get_cached_result"}]
    /\ UNCHANGED <<cacheVars, now, submitted, request, path, similar,
                   store_ret>>
    /\ UNCHANGED auxVars

\* variant: a missing reference product is raised as an error
AnchorFetch_Raises(p) ==
    /\ pc[p] = "anchor"
    /\ stages' = [stages EXCEPT ![p] = @ \cup {"_get_product_details"}]
    /\ IF GetProductDetails(request[p].product_id, request[p].product_type) = <<>>
       THEN /\ pc' = [pc EXCEPT ![p] = "failed"]
            /\ error' = [error EXCEPT ![p] = "not_found"]
       ELSE /\ pc' = [pc EXCEPT ![p] = "embed"]
            /\ UNCHANGED error
    /\ UNCHANGED <<cacheVars, now, submitted, request, path, hit, similar,
                   result, store_ret, cache_err>>
    /\ UNCHANGED auxVars

\* step 2: the reference product
AnchorFetch(p) ==
    /\ pc[p] = "anchor"
    /\ stages' = [stages EXCEPT ![p] = @ \cup {"_get_product_details"}]
    /\ IF GetProductDetails(request[p].product_id, request[p].product_type) = <<>>
       THEN /\ pc' = [pc EXCEPT ![p] = "done"]
            /\ result' = [result EXCEPT ![p] = <<EmptyResult(request[p], now)>>]
       ELSE /\ pc' = [pc EXCEPT ![p] = "embed"]
            /\ UNCHANGED result
    /\ UNCHANGED <<cacheVars, now, submitted, request, path, hit, similar,
                   error, store_ret, cache_err>>
    /\ UNCHANGED auxVars

\* steps 3 and 4: description and embedding
Embed(p) ==
    /\ pc[p] = "embed"
    /\ stages' = [stages EXCEPT ![p] = @ \cup {"encode_for_qdrant"}]
    /\ pc' = [pc EXCEPT ![p] = "search"]
    /\ UNCHANGED <<cacheVars, now, submitted, request, path, hit, similar,
                   result, error, store_ret, cache_err>>
    /\ UNCHANGED auxVars

\* step 5: index search and the filter on the reference product
FilterAnchor(similar_products, req) ==
    SelectSeq(similar_products, LAMBDA sp : sp.product_id # req.product_id)

IndexSearch(p) ==
    /\ pc[p] = "search"
    /\ stages' = [stages EXCEPT ![p] = @ \cup {"search"}]
    /\ \E index_ok \in BOOLEAN :
        LET description ==
                GetProductDetails(request[p].product_id,
                                  request[p].product_type)[1].description
            query_vector == EncodeForQdrant(description)
            similar_products ==
                FilterAnchor(Search(query_vector, request[p].top_k * 2, index_ok),
                             request[p])
        IN  IF similar_products = <<>>
            THEN /\ pc' = [pc EXCEPT ![p] = "done"]
                 /\ result' = [result EXCEPT ![p] =
                                  <<EmptyResult(request[p], now)>>]
                 /\ UNCHANGED similar
            ELSE /\ pc' = [pc EXCEPT ![p] = "details"]
                 /\ similar' = [similar EXCEPT ![p] = similar_products]
                 /\ UNCHANGED result
    /\ UNCHANGED <<cacheVars, now, submitted, request, path, hit, error,
                   store_ret, cache_err>>
    /\ UNCHANGED auxVars

\* steps 6 to 8, first half: the records of the top_k neighbours
DetailsFetch(p) ==
    /\ pc[p] = "details"
    /\ stages' = [stages EXCEPT ![p] = @ \cup {"_get_multiple_product_details"}]
    /\ pc' = [pc EXCEPT ![p] = "rank"]
    /\ UNCHANGED <<cacheVars, now, submitted, request, path, hit, similar,
                   result, error, store_ret, cache_err>>
    /\ UNCHANGED auxVars

\* variant: the result is written to the cache while it is being ranked
Rank_WritesCache(p) ==
    /\ pc[p] = "rank"
    /\ stages' = [stages EXCEPT ![p] = @ \cup {"rank_products"}]
    /\ LET top == Take(similar[p], request[p].top_k)
           all_product_details ==
               GetMultipleProductDetails(
                   [i \in 1..Len(top) |-> top[i].product_id],
                   request[p].product_type)
           ranked_products ==
               RankProducts(top, all_product_details, request[p].product_type)
           res == NewResult(request[p], ranked_products, now)
       IN  /\ result' = [result EXCEPT ![p] = <<res>>]
           /\ cache' = StoreResult(cache, now, request[p], res, "none").cache
    /\ pc' = [pc EXCEPT ![p] =
                IF path[p] = "recommend" THEN "store" ELSE "done"]
    /\ UNCHANGED <<last_put, invalidated, inv_ret, inv_err, now, submitted,
                   request, path, hit, similar, error, store_ret, cache_err>>
    /\ UNCHANGED auxVars

\* step 8: ranking and the result; recommend_sync returns here
Rank(p) ==
    /\ pc[p] = "rank"
    /\ stages' = [stages EXCEPT ![p] = @ \cup {"rank_products"}]
    /\ LET top == Take(similar[p], request[p].top_k)
           all_product_details ==
               GetMultipleProductDetails(
                   [i \in 1..Len(top) |-> top[i].product_id],
                   request[p].product_type)
           ranked_products ==
               RankProducts(top, all_product_details, request[p].product_type)
       IN  result' = [result EXCEPT ![p] =
                         <<NewResult(request[p], ranked_products, now)>>]
    /\ pc' = [pc EXCEPT ![p] =
                IF path[p] = "recommend" THEN "store" ELSE "done"]
    /\ UNCHANGED <<cacheVars, now, submitted, request, path, hit, similar,
                   error, store_ret, cache_err>>
    /\ UNCHANGED auxVars

SameKey(r1, r2) ==
    GenerateCacheKey(r1.product_id, r1.client_id, r1.sentiment_score,
                     r1.product_type)
    = GenerateCacheKey(r2.product_id, r2.client_id, r2.sentiment_score,
                       r2.product_type)

\* step 9: the cache write.  fail "cancelled" is the task being cancelled
\* between the two setex calls (CancelledError is not an Exception).
Store(p) ==
    /\ pc[p] = "store"
    /\ stages' = [stages EXCEPT ![p] = @ \cup {"store_result"}]
    /\ \E fail \in {"none", "first", "second", "cancelled"} :
        LET out == StoreResult(cache, now, request[p], result[p][1],
                               IF fail = "cancelled" THEN "second" ELSE fail)
            kept == {r \in DOMAIN last_put :
                        fail = "first" \/ ~SameKey(r, request[p])}
        IN  /\ cache' = out.cache
            /\ last_put' =
                 [r \in kept \cup (IF out.ret THEN {request[p]} ELSE {}) |->
                    IF out.ret /\ r = request[p]
                    THEN [res |-> result[p][1], exp |-> now + CACHE_TTL_SECONDS]
                    ELSE last_put[r]]
            /\ IF fail = "cancelled"
               THEN /\ pc' = [pc EXCEPT ![p] = "failed"]
                    /\ error' = [error EXCEPT ![p] = "cancelled"]
                    /\ UNCHANGED <<store_ret, cache_err>>
               ELSE /\ pc' = [pc EXCEPT ![p] = "done"]
                    /\ store_ret' = [store_ret EXCEPT ![p] =
                                        IF out.ret THEN "true" ELSE "false"]
                    /\ cache_err' = [cache_err EXCEPT ![p] =
                                        IF out.ret THEN @ ELSE @ \cup {"set"}]
                    /\ UNCHANGED error
    /\ invalidated' = invalidated \
                        {<<request[p].product_id, request[p].product_type>>}
    /\ UNCHANGED <<now, submitted, request, path, hit, similar, result,
                   inv_ret, inv_err>>
    /\ UNCHANGED auxVars

\* An exception raised by a collaborator outside the cache (the repository,
\* the embedding model, the index connection), or the request being
\* cancelled, before the cache write.
AbortCause(stage) ==
    CASE stage = "anchor" -> "repository"
      [] stage = "embed" -> "embedding"
      [] stage = "search" -> "index"
      [] stage = "details" -> "repository"
      [] OTHER -> "cancelled"

Abort(p) ==
    /\ pc[p] \in {"cache_get", "anchor", "embed", "search", "details",
                  "rank", "store"}
    /\ pc' = [pc EXCEPT ![p] = "failed"]
    /\ error' = [error EXCEPT ![p] = AbortCause(pc[p])]
    /\ UNCHANGED <<cacheVars, now, submitted, request, path, hit, similar,
                   result, stages, store_ret, cache_err>>
    /\ UNCHANGED auxVars

\* the response (or the error) leaves; the context is free again
Respond(p) ==
    /\ pc[p] \in {"done", "failed"}
    /\ pc' = [pc EXCEPT ![p] = "idle"]
    /\ request' = [request EXCEPT ![p] = NoRequest]
    /\ path' = [path EXCEPT ![p] = "recommend"]
    /\ hit' = [hit EXCEPT ![p] = NotProbed]
    /\ similar' = [similar EXCEPT ![p] = <<>>]
    /\ result' = [result EXCEPT ![p] = <<>>]
    /\ stages' = [stages EXCEPT ![p] = {}]
    /\ error' = [error EXCEPT ![p] = "none"]
    /\ store_ret' = [store_ret EXCEPT ![p] = "none"]
    /\ cache_err' = [cache_err EXCEPT ![p] = {}]
    /\ UNCHANGED <<cacheVars, now, submitted>>
    /\ UNCHANGED auxVars

\* POST /cache/invalidate -> Orchestrator.invalidate_product_cache ->
\* CacheManager.invalidate
InvalidateProductCache(product_id, product_type) ==
    /\ \E fail \in {"none", "scan", "delete"} :
       \E deleted \in SUBSET ScanMatch(cache, product_type) :
        LET out == Invalidate(cache, product_id, product_type, deleted, fail)
        IN  /\ fail # "scan" => deleted = {}
            /\ cache' = out.cache
            /\ inv_ret' = out.ret
            /\ inv_err' = (fail # "none")
            /\ invalidated' = IF fail = "none"
                              THEN invalidated \cup {<<product_id, product_type>>}
                              ELSE invalidated
    /\ last_put' = EmptyMap
    /\ UNCHANGED <<now, submitted, pc, request, path, hit, similar, result,
                   stages, error, store_ret, cache_err>>
    /\ UNCHANGED auxVars

\* time passes; Redis drops the keys whose TTL has run out
Tick ==
    /\ now + TickSeconds <= MaxTime
    /\ now' = now + TickSeconds
    /\ cache' = Delete(cache, {k \in DOMAIN cache : cache[k].exp <= now'})
    /\ last_put' = [r \in {x \in DOMAIN last_put : last_put[x].exp > now'} |->
                       last_put[r]]
    /\ UNCHANGED <<invalidated, submitted, pc, request, path, hit, similar,
                   result, stages, error, store_ret, cache_err, inv_ret,
                   inv_err>>
    /\ UNCHANGED auxVars

Pipeline(p) ==
    \/ CacheProbe(p)
    \/ AnchorFetch(p)
    \/ Embed(p)
    \/ IndexSearch(p)
    \/ DetailsFetch(p)
    \/ Rank(p)
    \/ Store(p)
    \/ Abort(p)
    \/ Respond(p)

(***************************************************************************)
(* Workloads.                                                              *)
(***************************************************************************)
Request(product_id, client_id, sentiment_score, top_k) ==
    [client_id |-> client_id, product_id |-> product_id,
     sentiment_score |-> sentiment_score, product_type |-> VEHICLE,
     top_k |-> top_k]

\* requests that differ in the reference product and in top_k, on both
\* paths, carried concurrently; the nearest neighbour of a3 is the point
\* whose product has left the relational store
PipelineRequests ==
    {Request(i, "c1", 4, k) : i \in {"a1", "A1", "zz"}, k \in {1, 3}}
        \cup {Request("a3", "c1", 4, 1)}

\* requests on one product that differ in client and in sentiment, run one
\* at a time while the operator invalidates and the entries age
SentimentRequests ==
    {Request("a1", c, s, 1) : c \in {"c1", "c2"}, s \in {4, 94, 100}}

Next ==
    \/ \E p \in Contexts, req \in PipelineRequests,
          entry \in {"recommend", "recommend_sync"} : Submit(p, req, entry)
    \/ \E p \in Contexts : Pipeline(p)

Spec == Init /\ [][Next]_vars

NextSentiment ==
    \/ \E req \in SentimentRequests : Submit(1, req, "recommend")
    \/ Pipeline(1)
    \/ InvalidateProductCache("a1", VEHICLE)
    \/ Tick

SpecSentiment == Init /\ [][NextSentiment]_vars

(***************************************************************************)
(* State machine of the request context and of the tasks.  One HTTP        *)
(* execution context handles requests one after the other; one worker      *)
(* process executes the published tasks one at a time.                     *)
(***************************************************************************)
\* CorrelationIdMiddleware.dispatch, from its entry to call_next
Dispatch(headers) ==
    /\ http.pc = "idle"
    /\ http' = [http EXCEPT
                  !.pc = "handling",
                  !.entry = http.ctx,
                  !.correlation_id = Get(headers, "X-Correlation-ID", "uuid4"),
                  !.ctx = DispatchContext(http.ctx, headers),
                  !.depth = 1]
    /\ UNCHANGED <<taskFrame, tasks, worker>>

\* the handler under call_next: Orchestrator.process_async publishes the
\* full workflow
ProcessAsync(body) ==
    /\ http.pc = "handling"
    /\ http.depth = 1
    /\ Len(tasks) < MaxTasks
    /\ tasks' = Append(tasks,
                  NewTask(ProcessAsyncKwargs("a1", "c1", "bien", VEHICLE, 3),
                          http.correlation_id, body))
    /\ UNCHANGED <<taskFrame, worker, http>>

\* code under the request that opens a scope of its own: it sets the three
\* values ...
OpenScope(correlation_id, user_id, session_id) ==
    /\ http.pc = "handling"
    /\ http.depth = 1
    /\ http' = [http EXCEPT
                  !.parent = http.ctx,
                  !.ctx = set_session_id(
                              set_user_id(
                                  set_correlation_id(http.ctx, correlation_id),
                                  user_id),
                              session_id),
                  !.depth = 2]
    /\ UNCHANGED <<taskFrame, tasks, worker>>

\* ... and clears the context when it is done
CloseScope ==
    /\ http.depth = 2
    /\ http' = [http EXCEPT !.ctx = clear_all_context(http.ctx), !.depth = 1]
    /\ UNCHANGED <<taskFrame, tasks, worker>>

\* CorrelationIdMiddleware.dispatch, from the return of call_next (a
\* response or an exception) through the finally clause
Finish(raised) ==
    /\ http.pc = "handling"
    /\ http.depth = 1
    /\ http' = [http EXCEPT
                  !.pc = "idle",
                  !.ctx = clear_all_context(http.ctx),
                  !.last = http.ctx,
                  !.raised = raised,
                  !.correlation_id = None,
                  !.parent = NoContext,
                  !.depth = 0]
    /\ UNCHANGED <<taskFrame, tasks, worker>>

\* a publisher that puts the correlation id in the kwargs of the message,
\* where BaseTask.__call__ looks for it
Publish(correlation_id) ==
    /\ Len(tasks) < MaxTasks
    /\ LET kwargs == ProcessAsyncKwargs("a1", "c1", "bien", VEHICLE, 3)
           named == [k \in DOMAIN kwargs \cup {"correlation_id"} |->
                        IF k = "correlation_id" THEN correlation_id
                        ELSE kwargs[k]]
       IN  tasks' = Append(tasks, NewTask(named, None, "returns"))
    /\ UNCHANGED <<taskFrame, worker, http>>

\* BaseTask.__call__, from its entry to super().__call__
Call(t) ==
    /\ worker.task = 0
    /\ t \in DOMAIN tasks
    /\ tasks[t].status \in {"PENDING", "RETRY"}
    /\ tasks[t].name \in RegisteredTasks
    /\ LET correlation_id == Get(tasks[t].kwargs, "correlation_id", None)
       IN  worker' = [task |-> t,
                      entry |-> worker.ctx,
                      last |-> worker.last,
                      ctx |-> IF Truthy(correlation_id)
                              THEN set_correlation_id(worker.ctx, correlation_id)
                              ELSE worker.ctx]
    /\ tasks' = [tasks EXCEPT ![t].status = "STARTED"]
    /\ UNCHANGED <<taskFrame, http>>

\* whether this execution of the task raises: a keyword the function does
\* not accept is a TypeError, ProductType(product_type) and the
\* RecommendationRequest that process_recommendation_task builds from its
\* arguments raise inside the try block of the body, otherwise the
\* collaborators decide
Raises(task) ==
    \/ DOMAIN task.kwargs \
          (CASE task.name = "process_recommendation" ->
                    {"client_id", "product_id", "sentiment_score",
                     "product_type", "top_k"}
             [] task.name = "process_sentiment" ->
                    {"product_id", "client_id", "commentaire", "product_type"}
             [] task.name = "vectorize_products" ->
                    {"product_type", "batch_size"}
             [] OTHER -> {"product_id", "client_id", "commentaire",
                          "product_type", "top_k"}) # {}
    \/ /\ task.name = "process_recommendation"
       /\ \/ task.kwargs["product_type"] # VEHICLE
          \/ task.kwargs["sentiment_score"] \notin -100..100
          \/ task.kwargs["top_k"] \notin 1..100
    \/ task.body = "raises"

\* super().__call__ of a task (the body, its except
\* clause) and the finally clause of BaseTask.__call__
Run(t) ==
    /\ worker.task = t
    /\ LET task == [tasks[t] EXCEPT !.executions = @ + 1]
           exc == <<"exception", task.executions>>
       IN  tasks' = [tasks EXCEPT ![t] =
                        IF Raises(task) THEN retry(task, exc)
                        ELSE [task EXCEPT !.status = "SUCCESS"]]
    /\ worker' = [worker EXCEPT !.task = 0,
                                !.last = worker.ctx,
                                !.ctx = clear_all_context(worker.ctx)]
    /\ UNCHANGED <<taskFrame, http>>

\* the headers of a request: any of the three absent, empty or set
Headers ==
    {h \in UNION {[S -> {"", "x1"}] :
                     S \in SUBSET {"X-Correlation-ID", "X-User-ID",
                                   "X-Session-ID"}} :
        \A k \in DOMAIN h \ {"X-Correlation-ID"} : h[k] # ""}

\* requests that carry a correlation id or leave it to the middleware
\* publish tasks, and the worker executes them
NextTasks ==
    \/ \E headers \in {h \in Headers : DOMAIN h \subseteq {"X-Correlation-ID"}
                                       /\ "" \notin {h[k] : k \in DOMAIN h}} :
          Dispatch(headers)
    \/ \E body \in {"returns", "raises"} : ProcessAsync(body)
    \/ Finish(FALSE)
    \/ \E t \in 1..MaxTasks : Call(t)
    \/ \E t \in 1..MaxTasks : Run(t)

SpecTasks == Init /\ [][NextTasks]_vars

\* the worker takes every message that waits and finishes every execution
\* it started
SpecTasksFair ==
    /\ SpecTasks
    /\ \A t \in 1..MaxTasks : WF_vars(Call(t)) /\ WF_vars(Run(t))

\* requests with any headers, scopes nested in them, and tasks whose
\* message names a correlation id
NextContext ==
    \/ \E headers \in Headers : Dispatch(headers)
    \/ \E v \in {"x2"} : OpenScope(v, v, v)
    \/ CloseScope
    \/ \E raised \in BOOLEAN : Finish(raised)
    \/ \E correlation_id \in {"x3"} : Publish(correlation_id)
    \/ \E t \in 1..MaxTasks : Call(t)
    \/ \E t \in 1..MaxTasks : Run(t)

SpecContext == Init /\ [][NextContext]_vars

\* Orchestrator.process_sentiment_only, process_recommendation_only and
\* trigger_vectorization: delay() of the task with these keyword arguments
Delay(name, kwargs, body) ==
    /\ Len(tasks) < MaxTasks
    /\ tasks' = Append(tasks, [NewTask(kwargs, None, body) EXCEPT
                                  !.name = name, !.queue = Route(name)])
    /\ UNCHANGED <<taskFrame, worker, http>>

\* celery beat when the health check entry is due: the scheduler sends the
\* task the entry names, without arguments
Beat ==
    /\ Len(tasks) < MaxTasks
    /\ tasks' = Append(tasks, [NewTask(<<>>, None, "returns") EXCEPT
                                  !.name = beat_schedule,
                                  !.queue = Route(beat_schedule)])
    /\ UNCHANGED <<taskFrame, worker, http>>

\* the worker receives a message whose task name is not in its registry:
\* the message is dropped and the result is NotRegistered
Reject(t) ==
    /\ worker.task = 0
    /\ t \in DOMAIN tasks
    /\ tasks[t].status = "PENDING"
    /\ tasks[t].name \notin RegisteredTasks
    /\ tasks' = [tasks EXCEPT ![t].status = "FAILURE",
                              ![t].error = <<"NotRegistered">>]
    /\ UNCHANGED <<taskFrame, worker, http>>

\* the callers of the orchestrator submit tasks of every kind, beat sends
\* the periodic one, and the worker consumes the queues
NextQueues ==
    \/ \E sentiment_score \in {50, 150}, product_type \in {VEHICLE, "boat"},
          top_k \in {3, 0} :
          Delay("process_recommendation",
                [k \in {"client_id", "product_id", "sentiment_score",
                        "product_type", "top_k"} |->
                    CASE k = "client_id" -> "c1"
                      [] k = "product_id" -> "a1"
                      [] k = "sentiment_score" -> sentiment_score
                      [] k = "product_type" -> product_type
                      [] OTHER -> top_k],
                "returns")
    \/ Delay("process_sentiment",
             [k \in {"product_id", "client_id", "commentaire",
                     "product_type"} |->
                 CASE k = "product_id" -> "a1"
                   [] k = "client_id" -> "c1"
                   [] k = "commentaire" -> "bien"
                   [] OTHER -> VEHICLE],
             "returns")
    \/ Delay("vectorize_products",
             [k \in {"product_type", "batch_size"} |->
                 IF k = "product_type" THEN VEHICLE ELSE 100],
             "returns")
    \/ Delay("process_full_workflow",
             ProcessAsyncKwargs("a1", "c1", "bien", VEHICLE, 3), "returns")
    \/ Beat
    \/ \E t \in 1..MaxTasks : Call(t)
    \/ \E t \in 1..MaxTasks : Run(t)
    \/ \E t \in 1..MaxTasks : Reject(t)

SpecQueues == Init /\ [][NextQueues]_vars

(***************************************************************************)
(* State machine of the model loaders: the threads of one process call the *)
(* services, and _load_model runs as the check of self._model and the load *)
(* that assigns it, with nothing that keeps two threads apart.             *)
(***************************************************************************)
\* a thread enters encode or analyze on a service object; an object it
\* constructs for the call starts with _model = None
BeginCall(c, service, owner) ==
    /\ callers[c].pc = "idle"
    /\ owner \in {0, c}
    /\ loads[service] < MaxLoads
    /\ callers' = [callers EXCEPT ![c] =
                      [pc |-> "check", service |-> service, owner |-> owner,
                       used |-> 0]]
    /\ model_of' = IF owner = c
                   THEN [model_of EXCEPT ![<<service, owner>>] = 0]
                   ELSE model_of
    /\ UNCHANGED <<loads, loadFrame>>

\* _load_model: if self._model is not None: return
CheckLoaded(c) ==
    /\ callers[c].pc = "check"
    /\ LET i == <<callers[c].service, callers[c].owner>>
       IN  callers' = [callers EXCEPT ![c].pc =
                          IF model_of[i] # 0 THEN "infer" ELSE "load"]
    /\ UNCHANGED <<model_of, loads, loadFrame>>

\* _load_model: the model is read from disk and assigned to self._model
LoadModel(c) ==
    /\ callers[c].pc = "load"
    /\ LET s == callers[c].service
           i == <<s, callers[c].owner>>
       IN  /\ loads' = [loads EXCEPT ![s] = @ + 1]
           /\ model_of' = [model_of EXCEPT ![i] = loads[s] + 1]
    /\ callers' = [callers EXCEPT ![c].pc = "infer"]
    /\ UNCHANGED loadFrame

\* the call runs the model its object holds and returns
Infer(c) ==
    /\ callers[c].pc = "infer"
    /\ callers' = [callers EXCEPT
                      ![c].pc = "idle",
                      ![c].used = model_of[<<callers[c].service,
                                             callers[c].owner>>]]
    /\ UNCHANGED <<model_of, loads, loadFrame>>

NextModels ==
    \/ \E c \in Callers, service \in Services, owner \in {0} \cup Callers :
          BeginCall(c, service, owner)
    \/ \E c \in Callers : CheckLoaded(c)
    \/ \E c \in Callers : LoadModel(c)
    \/ \E c \in Callers : Infer(c)

SpecModels == Init /\ [][NextModels]_vars

(***************************************************************************)
(* State machine of Orchestrator.process_recommendation_request up to the  *)
(* call of the recommendation engine: step 1 analyses the comment, step 2  *)
(* builds the RecommendationRequest from the score and enters recommend.   *)
(***************************************************************************)
\* step 1: SentimentInput(...) and sentiment_analyzer.analyze
Analyze(input_data, fault, probabilities) ==
    /\ analysis.pc \in {"idle", "recommendation"}
    /\ LET out == analyze(input_data, fault, probabilities)
       IN  analysis' = [pc |-> IF out[1] THEN "idle" ELSE "analyzed",
                        input_data |-> input_data, fault |-> fault,
                        probabilities |-> probabilities, raised |-> out[1],
                        result |-> out[2], rec_request |-> <<>>]
    /\ UNCHANGED analysisFrame

\* step 2: RecommendationRequest(...) and recommendation_engine.recommend;
\* sentiment_score is in ten-thousandths here
EnterRecommendation(top_k) ==
    /\ analysis.pc = "analyzed"
    /\ analysis' = [analysis EXCEPT
                      !.pc = "recommendation",
                      !.rec_request =
                          <<[client_id |-> analysis.input_data.client_id,
                             product_id |-> analysis.input_data.product_id,
                             sentiment_score |->
                                 analysis.result.sentiment_score,
                             product_type |-> VEHICLE,
                             top_k |-> top_k]>>]
    /\ UNCHANGED analysisFrame

\* the calls of analyze: any of the steps may fail, and the model's
\* probabilities (in 1e-5) cover two, three, four and five classes
NextAnalysis ==
    \/ \E input_data \in {SentimentInput(p, c, "bien", VEHICLE) :
                              p \in {"a1", "zz"}, c \in {"c1", "c2"}},
          fault \in {"none", "load", "tokenize", "inference"},
          probabilities \in
              {<<10000, 90000>>, <<39998, 60002>>, <<40000, 60000>>,
               <<60002, 39998>>, <<70000, 20000, 10000>>,
               <<20000, 39996, 40004>>, <<30000, 40000, 30000>>,
               <<10000, 20000, 70000>>, <<0, 0, 59992, 40008, 0>>,
               <<0, 0, 60000, 40000, 0>>, <<80000, 20000, 0, 0, 0>>,
               <<0, 0, 0, 20000, 80000>>, <<10000, 20000, 30000, 40000>>,
               <<40000, 30000, 20000, 10000>>, <<100000>>} :
          Analyze(input_data, fault, probabilities)
    \/ \E top_k \in {3} : EnterRecommendation(top_k)

SpecAnalysis == Init /\ [][NextAnalysis]_vars

(***************************************************************************)
(* State machine of the courier ranking: Orchestrator.rank_livreurs goes   *)
(* through its three phases and the construction of the response; the      *)
(* spatial filter is also called on its own, with any tolerance, on a      *)
(* scene of candidates, pickup and drop-off.                               *)
(***************************************************************************)
\* rank_livreurs, phase 1, and the empty response when nobody is eligible;
\* options is <<>> for None, else <<the OptionsClassementSchema>>, and is
\* not read
SpatialFiltering(candidates, longitude, type_livraison, options, include_details) ==
    /\ ranking.pc \in {"idle", "done"}
    /\ LET ranking_request ==
               [annonce |-> [annonce_id |-> "ANN-001",
                             point_ramassage |-> PointSchema(0, 0),
                             point_livraison |-> PointSchema(0, longitude),
                             type_livraison |-> type_livraison],
                livreurs_candidats |->
                    [i \in DOMAIN candidates |->
                        LivreurCandidatSchema(
                            candidates[i][1], candidates[i][2],
                            candidates[i][3], candidates[i][4],
                            candidates[i][5])],
                options |-> options]
           annonce == ranking_request.annonce
           livreurs == ranking_request.livreurs_candidats
           tolerance_km == SPATIAL_TOLERANCE_KM[annonce.type_livraison]
           filtered == filter_by_ellipse(livreurs, annonce.point_ramassage,
                                         annonce.point_livraison, tolerance_km)
           distances == calculate_distances_for_livreurs(
                            filtered[1], annonce.point_ramassage,
                            annonce.point_livraison)
       IN  ranking' =
             [pc |-> IF filtered[1] = <<>> THEN "done" ELSE "ahp",
              request |-> ranking_request, include_details |-> include_details,
              tolerance_km |-> tolerance_km, eligible |-> filtered[1],
              rejected |-> filtered[2], distances |-> distances,
              weights |-> <<>>, topsis_results |-> <<>>,
              outcome |->
                  IF filtered[1] = <<>>
                  THEN create_empty_response(
                           annonce, Len(livreurs), filtered[2], tolerance_km)
                  ELSE Raised("none")]
    /\ UNCHANGED <<filtering, rankingFrame>>

\* rank_livreurs, phase 2
AhpWeights ==
    /\ ranking.pc = "ahp"
    /\ ranking' = [ranking EXCEPT
                     !.pc = "topsis",
                     !.weights = calculate_criteria_weights(
                                     ranking.request.annonce.type_livraison)]
    /\ UNCHANGED <<filtering, rankingFrame>>

\* rank_livreurs, phase 3
TopsisRanking ==
    /\ ranking.pc = "topsis"
    /\ ranking' = [ranking EXCEPT
                     !.pc = "format",
                     !.topsis_results = TopsisRank(ranking.eligible,
                                                   ranking.distances,
                                                   ranking.weights[1])]
    /\ UNCHANGED <<filtering, rankingFrame>>

\* rank_livreurs, from _format_ranked_livreurs to the return
FormatResponse ==
    /\ ranking.pc = "format"
    /\ LET annonce == ranking.request.annonce
           livreurs_classes == format_ranked_livreurs(ranking.topsis_results,
                                                      ranking.include_details)
           metadata == MetadataSchema(
               annonce.type_livraison, ranking.tolerance_km,
               StatistiquesFiltrageSchema(
                   Len(ranking.request.livreurs_candidats),
                   Len(ranking.eligible), ranking.rejected),
               <<ranking.weights[1] @@
                 [CR |-> ranking.weights[2].CR,
                  est_coherent |-> ranking.weights[2].est_coherent]>>)
       IN  ranking' = [ranking EXCEPT
              !.pc = "done",
              !.outcome =
                  IF livreurs_classes.raised # "none" THEN livreurs_classes
                  ELSE RankingResponseSchema(
                           annonce.annonce_id,
                           livreurs_classes.value[1], metadata,
                           generate_warnings(ranking.weights[2]))]
    /\ UNCHANGED <<filtering, rankingFrame>>

\* a caller of the filter sets up candidates, a pickup and a drop-off ...
SetUp(candidates, longitude) ==
    /\ filtering' = [livreurs |->
                         [i \in DOMAIN candidates |->
                             LivreurCandidatSchema(
                                 candidates[i][1], candidates[i][2],
                                 candidates[i][3], candidates[i][4],
                                 candidates[i][5])],
                     point_ramassage |-> PointSchema(0, 0),
                     point_livraison |-> PointSchema(0, longitude),
                     runs |-> <<>>]
    /\ UNCHANGED <<ranking, rankingFrame>>

\* ... and calls filter_by_ellipse on them with a tolerance; runs keeps
\* <<tolerance_km, eligible, rejected>> of each call
FilterByEllipse(tolerance_km) ==
    /\ filtering.livreurs # <<>>
    /\ Len(filtering.runs) < MaxRuns
    /\ LET filtered == filter_by_ellipse(
                           filtering.livreurs, filtering.point_ramassage,
                           filtering.point_livraison, tolerance_km)
       IN  filtering' = [filtering EXCEPT
              !.runs = Append(@, <<tolerance_km, filtered[1], filtered[2]>>)]
    /\ UNCHANGED <<ranking, rankingFrame>>

\* the candidate lists of the workloads (livreur_id, longitude,
\* reputation, capacite_max_kg, type_vehicule of each), from couriers at
\* the pickup, halfway, at the far drop-off, behind the pickup and far
\* away; L6 is L1 under another id
CandidateLists ==
    LET L1 == <<"L1", 0, 90, 100, "voiture">>
        L2 == <<"L2", 50, 80, 50, "moto">>
        L3 == <<"L3", 100, 70, 30, "velo">>
        L4 == <<"L4", -30, 85, 200, "camion">>
        L5 == <<"L5", 200, 95, 80, "voiture">>
        L6 == <<"L6", 0, 90, 100, "voiture">>
    IN  {<<L1, L2, L3>>, <<L5>>, <<L3, L5>>, <<L2, L4>>, <<L4, L1>>,
         <<L6, L1>>}

NextRanking ==
    \/ \E candidates \in CandidateLists, longitude \in {40, 100},
          type_livraison \in {"standard", "express", "sameday"},
          options \in {<<>>, <<[tolerance_spatiale_km |-> 50]>>},
          include_details \in BOOLEAN :
          SpatialFiltering(candidates, longitude, type_livraison, options,
                           include_details)
    \/ AhpWeights
    \/ TopsisRanking
    \/ FormatResponse

SpecRanking == Init /\ [][NextRanking]_vars

\* the callers of the filter alone
NextFilter ==
    \/ \E candidates \in CandidateLists, longitude \in {40, 100} :
          SetUp(candidates, longitude)
    \/ \E tolerance_km \in {10, 15, 25, 50} : FilterByEllipse(tolerance_km)

SpecFilter == Init /\ [][NextFilter]_vars

(***************************************************************************)
(* Vectorization.  collection.exists and collection.points are the vehicle *)
(* collection of the vector index (the number of points that carry each    *)
(* real_product_id); collection.runs are the messages of                   *)
(* vectorize_products_task, which the worker processes execute             *)
(* concurrently (worker_concurrency = 4), each call to the index being one *)
(* step; collection.faults counts the calls to the index that raised.      *)
(***************************************************************************)
\* Orchestrator.trigger_vectorization: delay() of the task
TriggerVectorization(batch_size) ==
    /\ Len(collection.runs) < MaxVectorizations
    /\ collection' = [collection EXCEPT !.runs =
                         Append(@, [batch_size |-> batch_size,
                                    status |-> "PENDING", retries |-> 0,
                                    error |-> <<>>, executions |-> 0,
                                    pc |-> "idle", i |-> 0])]
    /\ UNCHANGED <<pipelineVars, tasks, worker, http, model_of, loads,
                   callers, analysis, ranking, filtering, weighting>>

\* a worker process takes the message, for the first time or after a retry
StartVectorize(r) ==
    /\ r \in DOMAIN collection.runs
    /\ collection.runs[r].status \in {"PENDING", "RETRY"}
    /\ collection' = [collection EXCEPT
                         !.runs[r].status = "STARTED",
                         !.runs[r].executions = @ + 1,
                         !.runs[r].pc = "create",
                         !.runs[r].i = 0]
    /\ UNCHANGED <<pipelineVars, tasks, worker, http, model_of, loads,
                   callers, analysis, ranking, filtering, weighting>>

\* VectorStore.create_collection_sync(pt, recreate=True) as the task calls
\* it: fault names the client call that raises; the except clause turns the
\* exception into the return value False, which the task does not read
CreateCollectionSync(r, fault) ==
    /\ r \in DOMAIN collection.runs
    /\ collection.runs[r].pc = "create"
    /\ fault # "none" => collection.faults < MaxFaults
    /\ fault = "delete_collection" => collection.exists
    /\ LET exists == collection.exists
           deleted == exists /\ fault \notin {"get_collections",
                                              "delete_collection"}
           created == /\ fault = "none"
       IN  collection' = [collection EXCEPT
               !.exists = IF fault = "get_collections" THEN exists
                          ELSE IF exists /\ fault = "delete_collection"
                          THEN TRUE
                          ELSE created,
               !.points = IF deleted THEN [p \in VehicleIds |-> 0] ELSE @,
               !.faults = IF fault = "none" THEN @ ELSE @ + 1,
               !.runs[r].pc = "upsert"]
    /\ UNCHANGED <<pipelineVars, tasks, worker, http, model_of, loads,
                   callers, analysis, ranking, filtering, weighting>>

\* one turn of the batch loop of the task: upsert_vectors_batch gives every
\* item of the batch a point with a new uuid4 id; an exception of the
\* client (a fault, or a collection that does not exist) reaches the except
\* clause of the task, which calls self.retry; after the last batch the
\* task returns
UpsertVectorsBatch(r, fault) ==
    /\ r \in DOMAIN collection.runs
    /\ collection.runs[r].pc = "upsert"
    /\ fault => collection.faults < MaxFaults
    /\ LET run == collection.runs[r]
           products == <<"a1", "a2", "a3">>
           batch == {products[k] :
                        k \in (run.i + 1)..Min(run.i + run.batch_size,
                                               Len(products))}
           raises == fault \/ ~collection.exists
           last == run.i + run.batch_size >= Len(products)
       IN  collection' = [collection EXCEPT
               !.points = IF raises THEN @
                          ELSE [p \in VehicleIds |->
                                   IF p \in batch THEN @[p] + 1 ELSE @[p]],
               !.faults = IF fault THEN @ + 1 ELSE @,
               !.runs[r] =
                   IF raises
                   THEN [retry(run, <<"exception", run.executions>>)
                            EXCEPT !.pc = "idle"]
                   ELSE IF last
                   THEN [run EXCEPT !.status = "SUCCESS", !.pc = "idle"]
                   ELSE [run EXCEPT !.i = @ + run.batch_size]]
    /\ UNCHANGED <<pipelineVars, tasks, worker, http, model_of, loads,
                   callers, analysis, ranking, filtering, weighting>>

\* the task is triggered with batches of two and with the default batch
\* size, and a call to the index may raise
NextVectorize ==
    \/ \E batch_size \in {2, 100} : TriggerVectorization(batch_size)
    \/ \E r \in 1..MaxVectorizations : StartVectorize(r)
    \/ \E r \in 1..MaxVectorizations,
          fault \in {"none", "get_collections", "delete_collection",
                     "create_collection"} : CreateCollectionSync(r, fault)
    \/ \E r \in 1..MaxVectorizations, fault \in BOOLEAN :
          UpsertVectorsBatch(r, fault)

SpecVectorize == Init /\ [][NextVectorize]_vars

(***************************************************************************)
(* The AHP calculator called on a matrix of the caller's choice.           *)
(***************************************************************************)
\* AHPCalculator.calculate_weights and check_consistency on a matrix, as
\* calculate_criteria_weights chains them
ComputeWeights(matrix) ==
    /\ weighting' =
         [matrix |-> matrix,
          outcome |->
              LET weights == calculate_weights(matrix)
              IN  Returned([weights |-> weights,
                            consistency |->
                                check_consistency(matrix, weights)])]
    /\ UNCHANGED <<pipelineVars, tasks, worker, http, model_of, loads,
                   callers, analysis, ranking, filtering, collection>>

\* the preset matrices, and the same with one diagonal entry set to 0 (or
\* the last one to -1) and with one entry under the diagonal that is not
\* the reciprocal of the one above
NextAhp ==
    \E type_livraison \in {"standard", "express", "sameday"},
       kd \in {x \in (1..4) \X {1, 0, -1} : x[2] = -1 => x[1] = 4},
       p \in {<<2, 1>>, <<3, 1>>, <<4, 3>>},
       v \in {<<>>, <<2, 1>>, <<1, 9>>} :
       ComputeWeights(
           [build_comparison_matrix(type_livraison) EXCEPT
               ![kd[1]][kd[1]] = <<kd[2], 1>>,
               ![p[1]][p[2]] = IF v = <<>> THEN @ ELSE v])

SpecAhp == Init /\ [][NextAhp]_vars

(***************************************************************************)
(* Properties.                                                             *)
(***************************************************************************)
Hits == {"exact", "fuzzy", "product"}

Recs(p) == result[p][1].recommendations

\* C1: when the cache probe finds an entry, recommend returns that stored
\* entry with cached = true, and for that request nothing but the probe is
\* invoked (no repository read, embedding, search, ranking or cache write).
C1_HitReturnsStoredResult ==
    /\ [](\A p \in Contexts :
            hit[p].kind \in Hits =>
                /\ pc[p] = "done"
                /\ result[p] = hit[p].data
                /\ result[p][1].cached
                /\ stages[p] = {"get_cached_result"})
    /\ [][\A p \in Contexts :
            (pc[p] = "cache_get" /\ hit'[p].kind \in Hits) =>
                /\ cache' = cache
                /\ \E k \in DOMAIN cache :
                     result'[p] = <<[ModelValidateJson(cache[k].val) EXCEPT
                                       !.cached = TRUE, !.cache_key = k]>>]_vars

C1_Witness ==
    \E p \in Contexts :
        /\ pc[p] = "done"
        /\ hit[p].kind = "exact"
        /\ Recs(p) # <<>>

C3_WithinToleranceHitsExactOrFuzzy ==
    \A r1 \in DOMAIN last_put : \A r2 \in SentimentRequests :
        ( /\ r2.product_id = r1.product_id
          /\ r2.client_id = r1.client_id
          /\ r2.product_type = r1.product_type
          /\ Abs(r1.sentiment_score - r2.sentiment_score)
                <= SENTIMENT_SCORE_TOLERANCE )
        => GetCachedResult(cache, r2, TRUE).kind \in {"exact", "fuzzy"}

\* the requests one can make on a product: any client, sentiments on and
\* around the buckets in use
RequestsOn(product_id) ==
    {Request(product_id, c, s, 1) :
        c \in {"c1", "c2"}, s \in {-6, 4, 14, 84, 90, 94, 100}}

C5_BackendErrorsAreAbsorbed ==
    /\ inv_err => inv_ret = 0
    /\ \A p \in Contexts :
        /\ error[p] # "cache"
        /\ "get" \in cache_err[p] =>
              /\ hit[p] = NoHit
              /\ pc[p] # "cache_get"
              /\ pc[p] = "done" => ~result[p][1].cached
        /\ "set" \in cache_err[p] =>
              /\ store_ret[p] = "false"
              /\ pc[p] = "done"
              /\ result[p] # <<>>
              /\ ~result[p][1].cached
              /\ "rank_products" \in stages[p]

C5_Witness ==
    /\ inv_err
    /\ \E p \in Contexts :
        /\ pc[p] = "done"
        /\ cache_err[p] = {"get", "set"}
        /\ Recs(p) # <<>>

\* C6: a cache write happens only after rank_products has returned for the
\* request; every step of a request before its cache write, and so every
\* request that fails at an earlier stage, leaves the whole keyspace as it is.
C6_StoreOnlyAfterRank ==
    /\ [](\A p \in Contexts :
            "store_result" \in stages[p] => "rank_products" \in stages[p])
    /\ [][\A p \in Contexts :
            (pc'[p] # pc[p] /\ pc[p] # "store") => cache' = cache]_vars

C6_Witness ==
    \E p \in Contexts :
        /\ pc[p] = "failed"
        /\ "rank_products" \in stages[p]
        /\ "store_result" \notin stages[p]
        /\ cache = EmptyMap

\* C7: the job the worker runs (recommend_sync) goes through the same stages
\* as recommend: the cache probe first, the cache put after ranking.
C7_WorkerPathProbesAndStores ==
    \A p \in Contexts :
        (pc[p] = "done" /\ path[p] = "recommend_sync") =>
            /\ "get_cached_result" \in stages[p]
            /\ "rank_products" \in stages[p] => "store_result" \in stages[p]

AnchorMissing(p) ==
    GetProductDetails(request[p].product_id, request[p].product_type) = <<>>

\* C8: when the probe misses and the reference product is not found,
\* recommend returns, without raising, an empty result (no recommendations,
\* total_results 0, cached false) and runs no embedding, search or ranking.
C8_MissingAnchorGivesEmptyResult ==
    \A p \in Contexts :
        ( /\ path[p] = "recommend"
          /\ hit[p].kind = "miss"
          /\ "_get_product_details" \in stages[p]
          /\ AnchorMissing(p) )
        => /\ pc[p] = "done"
           /\ error[p] = "none"
           /\ Recs(p) = <<>>
           /\ result[p][1].total_results = 0
           /\ ~result[p][1].cached
           /\ stages[p] = {"get_cached_result", "_get_product_details"}

C8_Witness ==
    \E p \in Contexts :
        /\ path[p] = "recommend"
        /\ request[p].product_id = "zz"
        /\ pc[p] = "done"
        /\ cache # EmptyMap

\* C9: in every result the ranks are 1..N in list order, N = total_results
\* = the number of recommendations, and final_score never increases with rank.
C9_RanksAndScoresOrdered ==
    \A p \in Contexts :
        result[p] # <<>> =>
            /\ result[p][1].total_results = Len(Recs(p))
            /\ \A i \in 1..Len(Recs(p)) : Recs(p)[i].rank = i
            /\ \A i, j \in 1..Len(Recs(p)) :
                  i < j => Recs(p)[i].final_score >= Recs(p)[j].final_score

C9_Witness ==
    \E p \in Contexts :
        /\ result[p] # <<>>
        /\ Len(Recs(p)) >= 2
        /\ Recs(p)[1].similarity_score < Recs(p)[2].similarity_score

\* C10: a freshly computed result holds at most top_k products and never the
\* reference product itself.
C10_AtMostTopKWithoutAnchor ==
    \A p \in Contexts :
        (pc[p] = "done" /\ ~result[p][1].cached) =>
            /\ Len(Recs(p)) <= request[p].top_k
            /\ \A i \in 1..Len(Recs(p)) :
                  UUID(Recs(p)[i].product_id) # UUID(request[p].product_id)

\* C11: a task whose body raises on every execution is retried at most 3
\* times and then reaches FAILURE with the last exception as its error; it
\* never ends in SUCCESS and it does not stay short of a terminal status
C11_RaisingTaskFailsAfterThreeRetries ==
    /\ [](\A t \in DOMAIN tasks :
            Raises(tasks[t]) =>
                /\ tasks[t].retries <= 3
                /\ tasks[t].status # "SUCCESS"
                /\ tasks[t].status = "FAILURE" =>
                      /\ tasks[t].retries = 3
                      /\ tasks[t].error = <<"exception", tasks[t].executions>>)
    /\ \A t \in 1..MaxTasks :
          (t \in DOMAIN tasks /\ Raises(tasks[t]))
              ~> (t \in DOMAIN tasks /\ tasks[t].status = "FAILURE")

\* a task of an HTTP request failed for good after its fourth execution
C11_Witness ==
    \E t \in DOMAIN tasks :
        /\ tasks[t].body = "raises"
        /\ tasks[t].status = "FAILURE"
        /\ tasks[t].retries = 3
        /\ tasks[t].executions = 4

\* C12: while the worker executes a task that an HTTP request with
\* correlation id c published, the message carries c and the ambient
\* correlation id of the worker is c
C12_WorkerRunsUnderRequestCorrelationId ==
    \A t \in DOMAIN tasks :
        (worker.task = t /\ Truthy(tasks[t].origin)) =>
            /\ Get(tasks[t].kwargs, "correlation_id", None) = tasks[t].origin
            /\ get_correlation_id(worker.ctx) = tasks[t].origin

\* C13: when a request or a task has finished, returning or raising, the
\* three ambient values are unset in its execution context, and the next
\* request or task finds them unset
C13_ContextUnsetBetweenExecutions ==
    /\ http.pc = "idle" => http.ctx = NoContext
    /\ worker.task = 0 => worker.ctx = NoContext
    /\ http.pc = "handling" => http.entry = NoContext
    /\ worker.task # 0 => worker.entry = NoContext

\* a request that carried the three headers ended in an exception, a task
\* that ran under a correlation id failed, and a next request and a next
\* task have started
C13_Witness ==
    /\ http.pc = "handling"
    /\ http.raised
    /\ http.last = [correlation_id |-> "x1", user_id |-> "x1",
                    session_id |-> "x1"]
    /\ worker.task # 0
    /\ worker.last.correlation_id = "x3"
    /\ \E t \in DOMAIN tasks : tasks[t].status = "FAILURE"

\* C14: when a nested scope that set new values clears the context, the
\* ambient values are again those of the enclosing scope
C14_ClearRestoresParentScope ==
    [][(http.depth = 2 /\ http'.depth = 1) => http'.ctx = http.parent]_vars

\* C15: in one process the model of a service is loaded once, whatever the
\* interleaving of the calls, and every call runs that one instance
C15_ModelLoadedOnce ==
    \A s \in Services :
        /\ loads[s] <= 1
        /\ \A c \in Callers :
              (callers[c].service = s /\ callers[c].used # 0) =>
                  callers[c].used = 1

\* C16: analyze returns whatever fails: when the model load, the
\* tokenization or the inference raises, the result is score 0, label
\* neutral, confidence 0 for the client and the product of the input, and
\* the request goes on to the recommendation stage
C16_AnalyzeNeverRaises ==
    /\ ~analysis.raised
    /\ (analysis.pc # "idle" /\ analysis.fault # "none") =>
          analysis.result =
              [client_id |-> analysis.input_data.client_id,
               product_id |-> analysis.input_data.product_id,
               sentiment_score |-> 0, sentiment_label |-> "neutral",
               confidence |-> 0,
               product_type |-> analysis.input_data.product_type]
    /\ analysis.pc = "recommendation" =>
          /\ analysis.rec_request # <<>>
          /\ analysis.rec_request[1].sentiment_score =
                 analysis.result.sentiment_score

\* the inference failed and the recommendation stage was entered with the
\* neutral score
C16_Witness ==
    /\ analysis.pc = "recommendation"
    /\ analysis.fault = "inference"
    /\ analysis.input_data.client_id = "c2"
    /\ analysis.rec_request[1].sentiment_score = 0

\* C17: the label of a returned SentimentResult agrees with its score:
\* positive iff the score is above 0.2, negative iff below -0.2, neutral
\* otherwise
C17_LabelAgreesWithScore ==
    analysis.pc # "idle" =>
        analysis.result.sentiment_label =
            IF analysis.result.sentiment_score > 2000 THEN "positive"
            ELSE IF analysis.result.sentiment_score < -2000 THEN "negative"
            ELSE "neutral"

\* C18: a courier is eligible in filter_by_ellipse iff the sum of its
\* distances to the pickup and to the drop-off is at most
\* distance(pickup, drop-off) + 2 * tolerance
C18_EligibleIffSumToBothFociWithinDmax ==
    \A r \in 1..Len(filtering.runs), i \in 1..Len(filtering.livreurs) :
        LET run == filtering.runs[r]
            livreur == filtering.livreurs[i]
            position == livreur.position_actuelle
            pickup == filtering.point_ramassage
            dropoff == filtering.point_livraison
        IN  (\E k \in 1..Len(run[2]) : run[2][k] = livreur)
            <=> haversine_distance(position.latitude, position.longitude,
                                   pickup.latitude, pickup.longitude)
                + haversine_distance(position.latitude, position.longitude,
                                     dropoff.latitude, dropoff.longitude)
                <= haversine_distance(pickup.latitude, pickup.longitude,
                                      dropoff.latitude, dropoff.longitude)
                   + 2 * run[1]

\* C19: for the same candidates, pickup and drop-off, every courier
\* eligible with a tolerance is eligible with any tolerance at least as
\* large
C19_EligibleGrowsWithTolerance ==
    LET eligible(r) == {filtering.runs[r][2][k] :
                           k \in 1..Len(filtering.runs[r][2])}
    IN  \A r1, r2 \in 1..Len(filtering.runs) :
            filtering.runs[r1][1] <= filtering.runs[r2][1]
            => eligible(r1) \subseteq eligible(r2)

\* two calls on one scene, the smaller tolerance keeping a courier and the
\* larger one keeping that courier and one more
C19_Witness ==
    LET eligible(r) == {filtering.runs[r][2][k] :
                           k \in 1..Len(filtering.runs[r][2])}
    IN  \E r1, r2 \in 1..Len(filtering.runs) :
            /\ filtering.runs[r1][1] < filtering.runs[r2][1]
            /\ eligible(r1) # {}
            /\ eligible(r1) # eligible(r2)
            /\ eligible(r1) \subseteq eligible(r2)

\* C20: when no candidate passes the spatial filter, rank_livreurs does
\* not raise and returns status success, no ranked courier, at least one
\* warning, candidats_eligibles = 0 and candidats_rejetes = the number of
\* candidates
C20_NoEligibleReturnsEmptySuccess ==
    (ranking.pc = "done" /\ ranking.eligible = <<>>)
    => /\ ranking.outcome.raised = "none"
       /\ LET response == ranking.outcome.value[1]
              statistiques == response.metadata.statistiques_filtrage
          IN  /\ response.status = "success"
              /\ response.livreurs_classes = <<>>
              /\ response.warnings # <<>>
              /\ Len(response.warnings[1]) >= 1
              /\ statistiques.candidats_eligibles = 0
              /\ statistiques.candidats_rejetes
                 = Len(ranking.request.livreurs_candidats)

\* C21: the tolerance rank_livreurs filters with is the request's
\* options.tolerance_spatiale_km when the request gives one, and otherwise
\* the default of the announcement's urgency
C21_ToleranceFromOptionsElseUrgency ==
    ranking.pc # "idle"
    => ranking.tolerance_km
       = IF ranking.request.options # <<>>
         THEN ranking.request.options[1].tolerance_spatiale_km
         ELSE SPATIAL_TOLERANCE_KM[ranking.request.annonce.type_livraison]

C26_TiesOrderedByLivreurId ==
    ranking.pc \in {"format", "done"}
    => LET results == ranking.topsis_results
           ids == <<"L1", "L2", "L3", "L4", "L5", "L6">>
           position(id) == CHOOSE n \in 1..Len(ids) : ids[n] = id
       IN  \A k \in 1..(Len(results) - 1) :
               \/ results[k].score_final > results[k + 1].score_final
               \/ /\ results[k].score_final = results[k + 1].score_final
                  /\ position(results[k].livreur_id)
                     < position(results[k + 1].livreur_id)

\* C23: for a matrix with a zero or negative diagonal entry or with some
\* M[j,i] # 1/M[i,j] or of an order outside 1..10, the weight computation
\* returns a validation failure and not weights with a consistency ratio
C23_InvalidMatrixRejected ==
    LET M == weighting.matrix
        n == Len(M)
        valid == /\ n \in 1..10
                 /\ \A i \in 1..n : M[i][i][1] > 0
                 /\ \A i, j \in 1..n :
                        /\ M[j][i][1] * M[i][j][1] = M[j][i][2] * M[i][j][2]
                        /\ M[i][j][1] # 0
    IN  (M # <<>> /\ ~valid) => weighting.outcome.raised # "none"

\* C24: a process_recommendation task whose arguments fail validation
\* (product_type outside the enumeration, sentiment_score outside [-1, 1],
\* top_k outside [1, 100]) is never retried: its body is executed at most
\* once, and once it was executed the task has failed
C24_InvalidInputNeverRetried ==
    \A t \in DOMAIN tasks :
        (/\ tasks[t].name = "process_recommendation"
         /\ \/ tasks[t].kwargs["product_type"] # VEHICLE
            \/ tasks[t].kwargs["sentiment_score"] \notin -100..100
            \/ tasks[t].kwargs["top_k"] \notin 1..100)
        => /\ tasks[t].executions <= 1
           /\ tasks[t].retries = 0
           /\ (tasks[t].executions = 1 /\ worker.task # t)
                  => tasks[t].status = "FAILURE"

\* C27: every message is on the queue dedicated to its task
\* (recommendation tasks on recommendations, sentiment tasks on sentiment,
\* vectorization tasks on vectorization, the others on default), and the
\* message of the periodic health check names a task the worker has
\* registered
C27_TasksOnDedicatedQueues ==
    \A t \in DOMAIN tasks :
        /\ tasks[t].queue =
              (CASE tasks[t].name = "process_recommendation" -> "recommendations"
                 [] tasks[t].name = "process_sentiment" -> "sentiment"
                 [] tasks[t].name = "vectorize_products" -> "vectorization"
                 [] OTHER -> "default")
        /\ tasks[t].name \in RegisteredTasks

\* C25: however often the vectorization task ran over the unchanged corpus
\* (a second run, a re-delivery, a retry after a partial failure), once
\* every execution has returned the collection holds exactly one index
\* point per product, as after one successful run
C25_VectorizationIdempotent ==
    (/\ collection.runs # <<>>
     /\ \A r \in DOMAIN collection.runs :
            collection.runs[r].status = "SUCCESS")
    => \A p \in VehicleIds : collection.points[p] = 1

\* C28: recommend never writes to the cache when it returns an empty
\* result: a request that recommend answered with a freshly computed empty
\* list did not call store_result, no cache key holds an empty list, and so
\* no request is answered an empty list from the cache
C28_EmptyResultNeverCached ==
    /\ \A p \in Contexts :
          (/\ pc[p] = "done"
           /\ path[p] = "recommend"
           /\ result[p][1].recommendations = <<>>)
          => /\ "store_result" \notin stages[p]
             /\ ~result[p][1].cached
    /\ \A k \in DOMAIN cache :
          ModelValidateJson(cache[k].val).recommendations # <<>>

\* C29: the cache key does not depend on top_k: two requests that differ
\* only in top_k have the same key, and a request whose key is in the cache
\* is answered the stored list as it is, whatever its own top_k
C29_KeyIgnoresTopK ==
    /\ [](\A r1, r2 \in PipelineRequests :
            [r1 EXCEPT !.top_k = r2.top_k] = r2 => SameKey(r1, r2))
    /\ [][\A p \in Contexts :
            LET key == GenerateCacheKey(request[p].product_id,
                                        request[p].client_id,
                                        request[p].sentiment_score,
                                        request[p].product_type)
            IN  (pc[p] = "cache_get" /\ pc'[p] = "done" /\ key \in DOMAIN cache)
                => result'[p][1].recommendations
                   = ModelValidateJson(cache[key].val).recommendations]_vars

\* a request with top_k = 1 was answered the two products that a request
\* with top_k = 3 had stored
C29_Witness ==
    \E p \in Contexts :
        /\ pc[p] = "done"
        /\ hit[p].kind = "exact"
        /\ Len(result[p][1].recommendations) > request[p].top_k

\* C30: the product-level key of a product holds the result of the most
\* recent successful store_result on that product, whoever the client was
\* (a successful store puts its result there, with the client_id and the
\* sentiment_score of its request, and no other step puts a value there),
\* and a product-level hit, taken only within the tolerance, returns the
\* result under that key as it was stored, also to another client
C30_ProductKeyHoldsLatestStore ==
    [][\A p \in Contexts :
        LET key == GenerateProductKey(request[p].product_id,
                                      request[p].product_type)
        IN  /\ (pc[p] = "store" /\ store_ret'[p] = "true")
               => /\ key \in DOMAIN cache'
                  /\ cache'[key].val = ModelDumpJson(result[p][1])
                  /\ ModelValidateJson(cache'[key].val).client_id
                     = request[p].client_id
                  /\ ModelValidateJson(cache'[key].val).sentiment_score
                     = request[p].sentiment_score
            /\ \A k \in DOMAIN cache' :
                   (/\ k[1] = "prod"
                    /\ \A q \in Contexts :
                          ~(/\ pc[q] = "store"
                            /\ store_ret'[q] = "true"
                            /\ GenerateProductKey(request[q].product_id,
                                                  request[q].product_type) = k))
                   => k \in DOMAIN cache /\ cache'[k] = cache[k]
            /\ (pc[p] = "cache_get" /\ hit'[p].kind = "product")
               => /\ key \in DOMAIN cache
                  /\ result'[p] =
                       <<[ModelValidateJson(cache[key].val) EXCEPT
                             !.cached = TRUE, !.cache_key = key]>>
                  /\ Abs(result'[p][1].sentiment_score
                         - request[p].sentiment_score)
                     <= SENTIMENT_SCORE_TOLERANCE]_vars

\* a client was answered, from the product-level key, the result that the
\* request of another client had stored
C30_Witness ==
    \E p \in Contexts :
        /\ pc[p] = "done"
        /\ hit[p].kind = "product"
        /\ result[p][1].client_id # request[p].client_id

====
